---- MODULE Spec2Model ----
(***************************************************************************)
(* Model of the MIDI clock / CC routing core of psiwave-matrix             *)
(* (src/midi.py: MidiInput, CCResolver, CCBinding, MidiRouter), of the     *)
(* render loop of src/main.py with the window of src/screen_wrapper.py,    *)
(* and of the held notes of src/multi_sinwaves.py.                         *)
(*                                                                         *)
(* Time.  Timestamps are floats in seconds in the source.  Here a           *)
(* timestamp is an integer number of time units, UnitsPerSec = 2^13 units  *)
(* to the second.  Every timestamp k / 2^13 below 2^40 units is a binary64 *)
(* float and the difference of two of them is computed without rounding,   *)
(* so the float test 0.002 <= dt <= 0.25 of _clock_on_tick is the integer  *)
(* test MIN_DT <= dt <= MAX_DT: 0.25 s is 2048 units, and 0.002 s lies     *)
(* strictly between 16 and 17 units (16.384).  Float results (bpm, unit    *)
(* values) are exact rationals <<numerator, denominator>> in lowest terms. *)
(*                                                                         *)
(* Optional[...] values: None is the empty tuple, a present value x is the *)
(* one-element tuple <<x>> (a rational r is already a tuple).              *)
(***************************************************************************)
EXTENDS Integers, Sequences, FiniteSets, TLC

VARIABLES
    midi,        \* the MidiInput object: its fields (src/midi.py:111-122)
    now,         \* the now_t of the latest drain() call (render-loop clock)
    call,        \* the latest call made on the object and its arguments
    ret,         \* what that call returned
    pre,         \* the MidiInput fields just before that call
    frames,      \* number of drain() calls that advanced the clock so far
    since_reset, \* history: Tick events since the latest Start/Stop
    pulse_reads, \* history: clock_state() calls that saw the pulse since the latest Start
    pulse_due,   \* history: a Start was received and no clock_state() call came after it
    disturbed,   \* history: the steady tick stream of SpecTempo has been disturbed
    router,      \* the MidiRouter object: its bindings (each with its resolver) and index
    effects,     \* the targets of the bindings; an Effect holds name -> Param
    sunk,        \* the set_param calls made by the latest process() call, in order
    fed,         \* history: per binding, the events fed to it since it was made or reset
    nfed,        \* history: number of events handed to process() so far
    polled,      \* history: number of messages the backend has delivered so far
    noted,       \* history: the notes of the messages read since the latest drain_notes()
    last_beat_index, \* render loop: the beat index latched by the latest beat edge
    beat_edge,   \* render loop: the latest frame fired the beat-edge branch
    edge_log,    \* render loop: tick counts at which a beat edge fired since the latest Start
    matrix,      \* the ScreenMatrix object: window state and what the window shows
    run,         \* where run() is: in its loop, returned, or left by an exception
    waves,       \* the MultiSinwavesEffect object: its held count per pitch class
    pre_waves    \* the held counts just before the latest call on that object

callvars == <<call, ret>>

clockvars ==
    <<midi, now, pre, frames, since_reset, pulse_reads, pulse_due, disturbed, polled,
      noted>>

loopvars == <<last_beat_index, beat_edge, edge_log>>

routervars == <<router, effects, sunk, fed, nfed>>

showvars == <<matrix, run, waves, pre_waves>>

vars == <<callvars, clockvars, routervars, loopvars, showvars>>

----------------------------------------------------------------------------
(* Bounds of the model *)

MaxFrames == 6       \* time-advancing drain() calls per behaviour of SpecClock
MaxNotes == 2        \* notes left undrained in the queue
MaxTempoTicks == 124 \* ticks per behaviour of SpecTempo: 24 and 100 more
MaxDrainFrames == 3  \* drain() calls per behaviour of SpecDrain
MaxPolled == 4       \* messages delivered by the backend per behaviour of SpecDrain
MaxPoll == 3         \* messages delivered to one drain() call
MaxFed == 3          \* events handed to process() per behaviour
MaxBatch == 2        \* events per process() call
MaxDecoded == 2      \* one-message drain() calls per behaviour of SpecDecode
MaxHeld == 3         \* note-ons counted on one pitch class
MaxBeatFrames == 50  \* render-loop frames per behaviour of SpecBeat: two beats and more

(* Program constants, in time units where they are durations *)

UnitsPerSec == 8192  \* time units per second (model's unit of the float seconds)
CLOCK_PPQN == 24     \* self._clock_ppqn
MIN_DT == 17         \* the least dt in units with 0.002 <= dt (0.002 s = 16.384 units)
MAX_DT == 2048       \* 0.25 s
WINDOW_CAP == 96     \* rolling window of tick intervals
MIN_SAMPLES == 4     \* intervals needed for a bpm estimate

----------------------------------------------------------------------------
(* Optional values and exact rationals *)

None == <<>>

Some(x) == <<x>>

IsNone(o) == o = <<>>

RECURSIVE GCD(_, _)
GCD(a, b) == IF b = 0 THEN a ELSE GCD(b, a % b)

\* the rational n/d (d > 0, n >= 0) in lowest terms
Rat(n, d) == LET g == GCD(n, d) IN <<n \div g, d \div g>>

RECURSIVE SeqSum(_)
SeqSum(s) == IF s = <<>> THEN 0 ELSE Head(s) + SeqSum(Tail(s))

----------------------------------------------------------------------------
(* MIDI status bytes *)

ST_TICK == 248       \* 0xF8
ST_START == 250      \* 0xFA
ST_CONTINUE == 251   \* 0xFB
ST_STOP == 252       \* 0xFC
ST_REALTIME == 248   \* status >= 0xF8: other real-time, ignored

MsgTick == <<248>>
MsgStart == <<250>>
MsgContinue == <<251>>
MsgStop == <<252>>
MsgActiveSense == <<254>>

\* what one get_message() poll of the backend yields: a message, or a failure
Msg(data) == [kind |-> "msg", data |-> data]

BackendRaise == [kind |-> "raise", data |-> <<>>]

----------------------------------------------------------------------------
(* MidiInput: construction *)

MidiInit(enabled) ==
    [ midiin                  |-> enabled,
      clock_running           |-> FALSE,
      clock_last_tick_t       |-> None,
      clock_tick_dts          |-> <<>>,
      clock_bpm               |-> None,
      clock_start_pulse       |-> FALSE,
      clock_tick_count        |-> 0,
      clock_last_dt           |-> None,
      note_queue              |-> <<>>,
      clock_first_tick_logged |-> FALSE ]

(* MidiInput: clock handling *)

\* mutant: Start forgets to clear the bpm estimate
clock_on_start_keeps_bpm(m) ==
    [m EXCEPT !.clock_running = TRUE,
              !.clock_last_tick_t = None,
              !.clock_tick_dts = <<>>,
              !.clock_start_pulse = TRUE,
              !.clock_tick_count = 0,
              !.clock_last_dt = None]

clock_on_start(m) ==
    [m EXCEPT !.clock_running = TRUE,
              !.clock_last_tick_t = None,
              !.clock_tick_dts = <<>>,
              !.clock_bpm = None,
              !.clock_start_pulse = TRUE,
              !.clock_tick_count = 0,
              !.clock_last_dt = None]

\* mutant: Stop keeps the previous-tick timestamp and the interval window
clock_on_stop_keeps_window(m) ==
    [m EXCEPT !.clock_running = FALSE,
              !.clock_bpm = None,
              !.clock_tick_count = 0,
              !.clock_last_dt = None]

\* mutant: Stop also withdraws the pending start pulse
clock_on_stop_clears_pulse(m) ==
    [m EXCEPT !.clock_running = FALSE,
              !.clock_last_tick_t = None,
              !.clock_tick_dts = <<>>,
              !.clock_bpm = None,
              !.clock_start_pulse = FALSE,
              !.clock_tick_count = 0,
              !.clock_last_dt = None]

\* mutant: Stop forgets to reset the tick count
clock_on_stop_keeps_count(m) ==
    [m EXCEPT !.clock_running = FALSE,
              !.clock_last_tick_t = None,
              !.clock_tick_dts = <<>>,
              !.clock_bpm = None,
              !.clock_last_dt = None]

clock_on_stop(m) ==
    [m EXCEPT !.clock_running = FALSE,
              !.clock_last_tick_t = None,
              !.clock_tick_dts = <<>>,
              !.clock_bpm = None,
              !.clock_tick_count = 0,
              !.clock_last_dt = None]

\* mutant: a full window drops the newest interval instead of the oldest
TrimWindow_keeps_oldest(dts) ==
    IF Len(dts) > WINDOW_CAP
    THEN SubSeq(dts, 1, WINDOW_CAP)
    ELSE dts

\* mutant: the window is never trimmed
TrimWindow_uncapped(dts) == dts

\* del dts[:-96]: keep the last WINDOW_CAP entries
TrimWindow(dts) ==
    IF Len(dts) > WINDOW_CAP
    THEN SubSeq(dts, Len(dts) - WINDOW_CAP + 1, Len(dts))
    ELSE dts

\* mutant: the estimate counts beats per 48 ticks
BpmOf_ppqn48(dts) == Rat(60 * UnitsPerSec * Len(dts), SeqSum(dts) * 48)

\* 60.0 * (1.0 / (avg_dt * ppqn)) with avg_dt = sum(dts) / len(dts) seconds
BpmOf(dts) == Rat(60 * UnitsPerSec * Len(dts), SeqSum(dts) * CLOCK_PPQN)

\* mutant: the lower limit of the interval filter is 0
DtAccepted_from_zero(dt) == 0 <= dt /\ dt <= MAX_DT

\* mutant: the lower limit of the interval filter is missing
DtAccepted_nolower(dt) == dt <= MAX_DT

\* the interval is kept when 0.002 <= dt <= 0.25
DtAccepted(dt) == MIN_DT <= dt /\ dt <= MAX_DT

\* mutant: three intervals are enough for an estimate
EnoughSamples_three(dts) == Len(dts) >= 3

\* enough samples for an estimate
EnoughSamples(dts) == Len(dts) >= MIN_SAMPLES

\* mutant: a tick whose interval is rejected is not counted
clock_on_tick_skips_rejected(m, now_t) ==
    LET m1 == [m EXCEPT !.clock_first_tick_logged = TRUE,
                        !.clock_running = TRUE]
        m2 == IF IsNone(m1.clock_last_tick_t)
              THEN [m1 EXCEPT !.clock_tick_count = @ + 1]
              ELSE LET dt == now_t - m1.clock_last_tick_t[1]
                       m3 == [m1 EXCEPT !.clock_last_dt = Some(dt)]
                   IN  IF DtAccepted(dt)
                       THEN LET dts == TrimWindow(Append(m3.clock_tick_dts, dt))
                                m4 == [m3 EXCEPT !.clock_tick_dts = dts,
                                                 !.clock_tick_count = @ + 1]
                            IN  IF EnoughSamples(dts) /\ SeqSum(dts) > 0
                                THEN [m4 EXCEPT !.clock_bpm = BpmOf(dts)]
                                ELSE m4
                       ELSE m3
    IN  [m2 EXCEPT !.clock_last_tick_t = Some(now_t)]

clock_on_tick(m, now_t) ==
    LET m1 == [m EXCEPT !.clock_first_tick_logged = TRUE,
                        !.clock_running = TRUE,
                        !.clock_tick_count = @ + 1]
        m2 == IF IsNone(m1.clock_last_tick_t)
              THEN m1
              ELSE LET dt == now_t - m1.clock_last_tick_t[1]
                       m3 == [m1 EXCEPT !.clock_last_dt = Some(dt)]
                   IN  IF DtAccepted(dt)
                       THEN LET dts == TrimWindow(Append(m3.clock_tick_dts, dt))
                                m4 == [m3 EXCEPT !.clock_tick_dts = dts]
                            IN  IF EnoughSamples(dts) /\ SeqSum(dts) > 0
                                THEN [m4 EXCEPT !.clock_bpm = BpmOf(dts)]
                                ELSE m4
                       ELSE m3
    IN  [m2 EXCEPT !.clock_last_tick_t = Some(now_t)]

\* the states _clock_on_tick passes through, one after each statement: an
\* asynchronous KeyboardInterrupt can leave the tracker in any of them (which
\* of them a signal can reach depends on the interpreter)
clock_on_tick_cuts(m, now_t) ==
    LET a1 == [m EXCEPT !.clock_first_tick_logged = TRUE]
        a2 == [a1 EXCEPT !.clock_running = TRUE]
        a3 == [a2 EXCEPT !.clock_tick_count = @ + 1]
    IN  IF IsNone(m.clock_last_tick_t)
        THEN {m, a1, a2, a3, [a3 EXCEPT !.clock_last_tick_t = Some(now_t)]}
        ELSE LET dt == now_t - m.clock_last_tick_t[1]
                 a4 == [a3 EXCEPT !.clock_last_dt = Some(dt)]
             IN  IF ~DtAccepted(dt)
                 THEN {m, a1, a2, a3, a4, [a4 EXCEPT !.clock_last_tick_t = Some(now_t)]}
                 ELSE LET a5 == [a4 EXCEPT !.clock_tick_dts = Append(@, dt)]
                          a6 == [a5 EXCEPT !.clock_tick_dts = TrimWindow(@)]
                          a7 == IF EnoughSamples(a6.clock_tick_dts)
                                   /\ SeqSum(a6.clock_tick_dts) > 0
                                THEN [a6 EXCEPT !.clock_bpm = BpmOf(a6.clock_tick_dts)]
                                ELSE a6
                      IN  {m, a1, a2, a3, a4, a5, a6, a7,
                           [a7 EXCEPT !.clock_last_tick_t = Some(now_t)]}

\* mutant: Continue handled like Start
clock_on_continue_restarts(m) ==
    [m EXCEPT !.clock_running = TRUE, !.clock_tick_count = 0, !.clock_tick_dts = <<>>,
              !.clock_bpm = None, !.clock_last_tick_t = None]

\* the Continue branch of drain(): self._clock_running = True
clock_on_continue(m) == [m EXCEPT !.clock_running = TRUE]

\* mutant: reading the clock state does not clear the start pulse
clock_state_sticky(m) ==
    [ midi |-> m,
      ret  |-> <<m.clock_running, m.clock_bpm, m.clock_start_pulse>> ]

clock_state(m) ==
    [ midi |-> [m EXCEPT !.clock_start_pulse = FALSE],
      ret  |-> <<m.clock_running, m.clock_bpm, m.clock_start_pulse>> ]

clock_debug_state(m) ==
    <<m.clock_running, m.clock_bpm, m.clock_tick_count, m.clock_last_dt,
      Len(m.clock_tick_dts)>>

(* MidiInput: message draining *)

MidiCC(ch, control, value, t) ==
    [channel |-> ch, control |-> control, value |-> value, t |-> t]

MidiNote(ch, note, vel, is_on, t) ==
    [channel |-> ch, note |-> note, velocity |-> vel, is_on |-> is_on, t |-> t]

\* status & 0xF0
MsgType(status) == (status \div 16) * 16

\* (status & 0x0F) + 1
ChannelOf(status) == (status % 16) + 1

\* mutant: a note-on with velocity 0 is queued as a note-on
VoiceNote_vel0_on(m, data, now_t) ==
    LET status == data[1] % 256
        msg_type == MsgType(status)
        ch == ChannelOf(status)
    IN  IF msg_type = 144 \/ msg_type = 128
        THEN LET note == data[2] % 128
                 vel == data[3] % 128
                 is_on == (msg_type = 144)
             IN  [m EXCEPT !.note_queue =
                     Append(@, MidiNote(ch, note, vel, is_on, now_t))]
        ELSE m

\* a channel-voice message of at least 3 bytes: queue a note, return the CCs it yields
VoiceNote(m, data, now_t) ==
    LET status == data[1] % 256
        msg_type == MsgType(status)
        ch == ChannelOf(status)
    IN  IF msg_type = 144 \/ msg_type = 128
        THEN LET note == data[2] % 128
                 vel == data[3] % 128
                 is_on == (msg_type = 144) /\ (vel > 0)
             IN  [m EXCEPT !.note_queue =
                     Append(@, MidiNote(ch, note, vel, is_on, now_t))]
        ELSE m

VoiceCC(data, now_t) ==
    LET status == data[1] % 256
    IN  IF MsgType(status) # 176
        THEN <<>>
        ELSE <<MidiCC(ChannelOf(status), data[2] % 128, data[3] % 128, now_t)>>

\* mutant: a message too short to decode ends the poll instead of being skipped
RECURSIVE DrainLoop_short_ends(_, _, _, _)
DrainLoop_short_ends(m, out, items, now_t) ==
    IF items = <<>>
    THEN [midi |-> m, out |-> out]
    ELSE LET it == Head(items)
             rest == Tail(items)
             data == it.data
             status == data[1] % 256
         IN  IF it.kind = "raise" THEN [midi |-> m, out |-> out]
             ELSE IF Len(data) < 1 THEN [midi |-> m, out |-> out]
             ELSE IF status = ST_TICK
                  THEN DrainLoop_short_ends(clock_on_tick(m, now_t), out, rest, now_t)
             ELSE IF status = ST_START
                  THEN DrainLoop_short_ends(clock_on_start(m), out, rest, now_t)
             ELSE IF status = ST_CONTINUE
                  THEN DrainLoop_short_ends(clock_on_continue(m), out, rest, now_t)
             ELSE IF status = ST_STOP
                  THEN DrainLoop_short_ends(clock_on_stop(m), out, rest, now_t)
             ELSE IF status >= ST_REALTIME THEN DrainLoop_short_ends(m, out, rest, now_t)
             ELSE IF Len(data) < 3 THEN [midi |-> m, out |-> out]
             ELSE DrainLoop_short_ends(VoiceNote(m, data, now_t),
                            out \o VoiceCC(data, now_t), rest, now_t)

\* the while-loop of drain(): items is what the successive get_message() polls yield
RECURSIVE DrainLoop(_, _, _, _)
DrainLoop(m, out, items, now_t) ==
    IF items = <<>>
    THEN [midi |-> m, out |-> out]
    ELSE LET it == Head(items)
             rest == Tail(items)
             data == it.data
             status == data[1] % 256
         IN  IF it.kind = "raise" THEN [midi |-> m, out |-> out]
             ELSE IF Len(data) < 1 THEN DrainLoop(m, out, rest, now_t)
             ELSE IF status = ST_TICK
                  THEN DrainLoop(clock_on_tick(m, now_t), out, rest, now_t)
             ELSE IF status = ST_START
                  THEN DrainLoop(clock_on_start(m), out, rest, now_t)
             ELSE IF status = ST_CONTINUE
                  THEN DrainLoop(clock_on_continue(m), out, rest, now_t)
             ELSE IF status = ST_STOP
                  THEN DrainLoop(clock_on_stop(m), out, rest, now_t)
             ELSE IF status >= ST_REALTIME THEN DrainLoop(m, out, rest, now_t)
             ELSE IF Len(data) < 3 THEN DrainLoop(m, out, rest, now_t)
             ELSE DrainLoop(VoiceNote(m, data, now_t),
                            out \o VoiceCC(data, now_t), rest, now_t)

drain(m, now_t, items) ==
    IF ~m.midiin
    THEN [midi |-> m, out |-> <<>>]
    ELSE DrainLoop(m, <<>>, items, now_t)

\* mutant: the queue is returned but not emptied
drain_notes_keeps(m) ==
    [ midi |-> m,
      ret  |-> m.note_queue ]

drain_notes(m) ==
    [ midi |-> [m EXCEPT !.note_queue = <<>>],
      ret  |-> m.note_queue ]

----------------------------------------------------------------------------
(* Utility functions *)

Abs(n) == IF n < 0 THEN 0 - n ELSE n

RatAdd(p, q) == Rat(p[1] * q[2] + q[1] * p[2], p[2] * q[2])

RatSub(p, q) == Rat(p[1] * q[2] - q[1] * p[2], p[2] * q[2])

RatMul(p, q) == Rat(p[1] * q[1], p[2] * q[2])

cc_unit(v) ==
    IF v <= 0 THEN <<0, 1>>
    ELSE IF v >= 127 THEN <<1, 1>>
    ELSE Rat(v, 127)

lerp(a, b, t) == RatAdd(a, RatMul(RatSub(b, a), t))

clamp01(x) ==
    IF x[1] <= 0 THEN <<0, 1>>
    ELSE IF x[1] >= x[2] THEN <<1, 1>>
    ELSE x

\* 1 / (1 + exp(-z)), a value strictly between 0 and 1: kept as its argument z,
\* a triple, where a computed float is a pair
Logistic(z) == <<z[1], z[2], 1>>

IsExact(x) == Len(x) = 2

\* mutant: the endpoints are not forced, the logistic is evaluated for them too
sigmoid01_unforced(x, threshold, steepness) ==
    LET x1 == clamp01(x)
        t == clamp01(threshold)
        k == steepness
    IN  IF ~(k[1] > 0) THEN x1
        ELSE Logistic(RatMul(k, RatSub(x1, t)))

sigmoid01(x, threshold, steepness) ==
    LET x1 == clamp01(x)
        t == clamp01(threshold)
        k == steepness
    IN  IF x1[1] <= 0 THEN <<0, 1>>
        ELSE IF x1[1] >= x1[2] THEN <<1, 1>>
        ELSE IF ~(k[1] > 0) THEN x1
        ELSE Logistic(RatMul(k, RatSub(x1, t)))

----------------------------------------------------------------------------
(* Transforms *)

SigmoidTransform(low, high, threshold, steepness) ==
    [kind |-> "sigmoid", low |-> low, high |-> high,
     threshold |-> threshold, steepness |-> steepness]

LinearTransform(low, high) == [kind |-> "linear", low |-> low, high |-> high]

IdentityTransform == [kind |-> "identity", low |-> <<0, 1>>, high |-> <<1, 1>>]

RawCCTransform == [kind |-> "raw_cc", low |-> <<0, 1>>, high |-> <<127, 1>>]

\* transform(u): the __call__ of the transform classes
TransformCall(tr, u) ==
    IF tr.kind = "sigmoid"
    THEN LET sg == sigmoid01(u, tr.threshold, tr.steepness)
         IN  IF IsExact(sg) THEN lerp(tr.low, tr.high, sg)
             ELSE <<sg[1], sg[2], tr.low, tr.high>>   \* lerp of a logistic value
    ELSE IF tr.kind = "linear" THEN lerp(tr.low, tr.high, u)
    ELSE IF tr.kind = "raw_cc" THEN RatMul(u, <<127, 1>>)
    ELSE u

----------------------------------------------------------------------------
(* CCResolver *)

MOST_RECENT_OF_ANY == "most_recent_of_any"

AVERAGE_OF_LAST_PER_CHANNEL == "average_of_last_per_channel"

CUSTOM == "custom"

LAST_T_INIT == -1000000000   \* -1e9: below every timestamp fed

CCResolverInit(strategy) ==
    [ strategy    |-> strategy,
      per_channel |-> <<>>,
      last_value  |-> None,
      last_t      |-> LAST_T_INIT ]

\* d[k] = v on a dict
DictSet(d, k, v) ==
    [x \in (DOMAIN d) \cup {k} |-> IF x = k THEN v ELSE d[x]]

RECURSIVE DictSum(_, _)
DictSum(d, keys) ==
    IF keys = {} THEN 0
    ELSE LET k == CHOOSE x \in keys : TRUE
         IN  d[k] + DictSum(d, keys \ {k})

\* int(round(s / n)) for s >= 0, n > 0: round() rounds halves to the even integer
RoundDiv(s, n) ==
    LET q == s \div n
        r == s % n
    IN  IF 2 * r < n THEN q
        ELSE IF 2 * r > n THEN q + 1
        ELSE IF q % 2 = 0 THEN q ELSE q + 1

\* mutant: an event older than the newest one seen is dropped altogether
feed_newest_only(r, cc) ==
    IF cc.t >= r.last_t
    THEN [r EXCEPT !.per_channel = DictSet(@, cc.channel, cc.value),
                   !.last_value = Some(cc.value),
                   !.last_t = cc.t]
    ELSE r

\* mutant: the newest-timestamp test is dropped, the last fed event always wins
feed_last_wins(r, cc) ==
    [r EXCEPT !.per_channel = DictSet(@, cc.channel, cc.value),
              !.last_value = Some(cc.value),
              !.last_t = cc.t]

\* mutant: a channel's value is added to the value it held, not overwritten
feed_accumulates(r, cc) ==
    LET held == IF cc.channel \in DOMAIN r.per_channel
                THEN r.per_channel[cc.channel] ELSE 0
        sum == IF held + cc.value > 127 THEN 127 ELSE held + cc.value
        r1 == [r EXCEPT !.per_channel = DictSet(@, cc.channel, sum)]
    IN  IF cc.t >= r1.last_t
        THEN [r1 EXCEPT !.last_value = Some(cc.value), !.last_t = cc.t]
        ELSE r1

feed(r, cc) ==
    LET r1 == [r EXCEPT !.per_channel = DictSet(@, cc.channel, cc.value)]
    IN  IF cc.t >= r1.last_t
        THEN [r1 EXCEPT !.last_value = Some(cc.value), !.last_t = cc.t]
        ELSE r1

\* the caller-supplied aggregation used by the bindings with a custom strategy:
\* the sum of the channels' values, in units of 127
CustomStrategy(per_channel) == Rat(DictSum(per_channel, DOMAIN per_channel), 127)

\* mutant: the average is taken over the 16 MIDI channels, not over those that reported
AverageOf_all16(per_channel) ==
    RoundDiv(DictSum(per_channel, DOMAIN per_channel), 16)

\* int(round(sum(values) / len(per_channel)))
AverageOf(per_channel) ==
    RoundDiv(DictSum(per_channel, DOMAIN per_channel), Cardinality(DOMAIN per_channel))

\* mutant: a resolver without data resolves to 0.0
resolve_default0(r) ==
    IF r.last_value = None THEN <<0, 1>>
    ELSE IF r.strategy = CUSTOM THEN clamp01(CustomStrategy(r.per_channel))
    ELSE IF r.strategy = MOST_RECENT_OF_ANY THEN cc_unit(r.last_value[1])
    ELSE IF DOMAIN r.per_channel = {} THEN <<0, 1>>
    ELSE cc_unit(AverageOf(r.per_channel))

resolve(r) ==
    IF r.last_value = None THEN None
    ELSE IF r.strategy = CUSTOM THEN clamp01(CustomStrategy(r.per_channel))
    ELSE IF r.strategy = MOST_RECENT_OF_ANY THEN cc_unit(r.last_value[1])
    ELSE IF r.strategy = AVERAGE_OF_LAST_PER_CHANNEL
         THEN IF DOMAIN r.per_channel = {} THEN None
              ELSE cc_unit(AverageOf(r.per_channel))
    ELSE cc_unit(r.last_value[1])

reset(r) ==
    [r EXCEPT !.per_channel = <<>>, !.last_value = None, !.last_t = LAST_T_INIT]

----------------------------------------------------------------------------
(* CCBinding and MidiRouter *)

CCBinding(ccs, target, param, transform, strategy) ==
    [ ccs       |-> ccs,
      target    |-> target,
      param     |-> param,
      transform |-> transform,
      resolver  |-> CCResolverInit(strategy) ]

MidiRouterInit == [bindings |-> <<>>, cc_to_bindings |-> <<>>]

\* a binding is known by its place in the bindings list (its id() in the source)
RouterAdd(rt, binding) ==
    LET id == Len(rt.bindings) + 1
        old == rt.cc_to_bindings
    IN  [ bindings |-> Append(rt.bindings, binding),
          cc_to_bindings |->
              [c \in (DOMAIN old) \cup binding.ccs |->
                  IF c \in binding.ccs
                  THEN Append(IF c \in DOMAIN old THEN old[c] ELSE <<>>, id)
                  ELSE old[c]] ]

RECURSIVE RouterOf(_)
RouterOf(bindings) ==
    IF bindings = <<>> THEN MidiRouterInit
    ELSE RouterAdd(RouterOf(SubSeq(bindings, 1, Len(bindings) - 1)),
                   bindings[Len(bindings)])

mapped_ccs(rt) == DOMAIN rt.cc_to_bindings

\* Param(default): the value starts as the default
Param(default) == [default |-> default, value |-> default]

\* Param.reset()
Param_reset(p) == [p EXCEPT !.value = p.default]

\* a target that is an Effect whose class declares the given parameter defaults
EffectOf(defaults) ==
    [kind |-> "effect", params |-> [q \in DOMAIN defaults |-> Param(defaults[q])]]

\* a target that is no Effect: an object whose set_param raises
RaisingSink == [kind |-> "raising", params |-> <<>>]

\* binding.target.set_param raises: process() has no handler around the call
sink_raises(fx, target) == fx[target].kind = "raising"

\* Effect.set_param on the fx: a name that is no parameter is ignored
set_param(fx, target, name, value) ==
    IF name \in DOMAIN fx[target].params
    THEN [fx EXCEPT ![target].params[name].value = value]
    ELSE fx

\* mutant: a control number feeds only the first binding that watches it
FeedBindings_first_only(bindings, ids, cc) ==
    IF ids = <<>> THEN bindings
    ELSE [bindings EXCEPT ![Head(ids)].resolver = feed(@, cc)]

\* the inner loop of process(): feed cc to each binding in ids
RECURSIVE FeedBindings(_, _, _)
FeedBindings(bindings, ids, cc) ==
    IF ids = <<>> THEN bindings
    ELSE FeedBindings(
             [bindings EXCEPT ![Head(ids)].resolver = feed(@, cc)],
             Tail(ids), cc)

SeqToSet(q) == {q[i] : i \in 1..Len(q)}

\* the first loop of process(): feed every message, collect the touched bindings
RECURSIVE FeedLoop(_, _, _)
FeedLoop(rt, touched, cc_msgs) ==
    IF cc_msgs = <<>> THEN [router |-> rt, touched |-> touched]
    ELSE LET cc == Head(cc_msgs)
         IN  IF cc.control \in mapped_ccs(rt)
             THEN LET ids == rt.cc_to_bindings[cc.control]
                  IN  FeedLoop(
                          [rt EXCEPT !.bindings = FeedBindings(@, ids, cc)],
                          touched \cup SeqToSet(ids), Tail(cc_msgs))
             ELSE FeedLoop(rt, touched, Tail(cc_msgs))

\* mutant: every binding that holds a value is pushed, touched or not
RECURSIVE SinkLoop_stale(_, _, _, _, _)
SinkLoop_stale(bindings, touched, i, fx, calls) ==
    IF i > Len(bindings) THEN [effects |-> fx, sunk |-> calls, raised |-> FALSE]
    ELSE LET b == bindings[i]
             unit == resolve(b.resolver)
         IN  IF unit = None
             THEN SinkLoop_stale(bindings, touched, i + 1, fx, calls)
             ELSE LET value == TransformCall(b.transform, unit)
                      made == Append(calls, [binding |-> i, target |-> b.target,
                                             param |-> b.param, value |-> value])
                  IN  IF sink_raises(fx, b.target)
                      THEN [effects |-> fx, sunk |-> made, raised |-> TRUE]
                      ELSE SinkLoop_stale(bindings, touched, i + 1,
                               set_param(fx, b.target, b.param, value), made)

\* the second loop of process(): resolve the touched bindings in list order and
\* push the transformed values; calls collects the set_param calls made
RECURSIVE SinkLoop(_, _, _, _, _)
SinkLoop(bindings, touched, i, fx, calls) ==
    IF i > Len(bindings) THEN [effects |-> fx, sunk |-> calls, raised |-> FALSE]
    ELSE LET b == bindings[i]
             unit == resolve(b.resolver)
         IN  IF i \notin touched \/ unit = None
             THEN SinkLoop(bindings, touched, i + 1, fx, calls)
             ELSE LET value == TransformCall(b.transform, unit)
                      made == Append(calls, [binding |-> i, target |-> b.target,
                                             param |-> b.param, value |-> value])
                  IN  IF sink_raises(fx, b.target)
                      THEN [effects |-> fx, sunk |-> made, raised |-> TRUE]
                      ELSE SinkLoop(bindings, touched, i + 1,
                               set_param(fx, b.target, b.param, value), made)

\* mutant: each message is fed and its bindings are pushed before the next
\* message is looked at
RECURSIVE process_per_event(_, _, _)
process_per_event(rt, fx, cc_msgs) ==
    IF cc_msgs = <<>>
    THEN [router |-> rt, effects |-> fx, sunk |-> <<>>, raised |-> FALSE]
    ELSE LET f == FeedLoop(rt, {}, <<Head(cc_msgs)>>)
             k == SinkLoop(f.router.bindings, f.touched, 1, fx, <<>>)
             more == process_per_event(f.router, k.effects, Tail(cc_msgs))
         IN  IF k.raised
             THEN [router |-> f.router, effects |-> k.effects, sunk |-> k.sunk,
                   raised |-> TRUE]
             ELSE [router |-> more.router, effects |-> more.effects,
                   sunk |-> k.sunk \o more.sunk, raised |-> more.raised]

process(rt, fx, cc_msgs) ==
    IF cc_msgs = <<>>
    THEN [router |-> rt, effects |-> fx, sunk |-> <<>>, raised |-> FALSE]
    ELSE LET f == FeedLoop(rt, {}, cc_msgs)
             k == SinkLoop(f.router.bindings, f.touched, 1, fx, <<>>)
         IN  [router |-> f.router, effects |-> k.effects, sunk |-> k.sunk,
              raised |-> k.raised]

----------------------------------------------------------------------------
(* MultiSinwavesEffect (src/multi_sinwaves.py): the held count of each     *)
(* pitch class.  Layer i of the source (0..11) is entry i + 1 here.        *)

N_LAYERS == 12

\* self._held_pc_counts = [0] * N_LAYERS
MultiSinwavesInit == [i \in 1..N_LAYERS |-> 0]

activate(w) == [i \in 1..N_LAYERS |-> 0]

\* mutant: a note-off decrements the count without the floor at 0
handle_note_unfloored(w, note) ==
    IF ~(0 <= note.note /\ note.note <= 127) THEN w
    ELSE LET pc == note.note % N_LAYERS
         IN  IF note.is_on
             THEN [w EXCEPT ![pc + 1] = @ + 1]
             ELSE [w EXCEPT ![pc + 1] = @ - 1]

handle_note(w, note) ==
    IF ~(0 <= note.note /\ note.note <= 127) THEN w
    ELSE LET pc == note.note % N_LAYERS
         IN  IF note.is_on
             THEN [w EXCEPT ![pc + 1] = @ + 1]
             ELSE LET c == w[pc + 1] - 1
                  IN  [w EXCEPT ![pc + 1] = IF c < 0 THEN 0 ELSE c]

\* draw(): highlighted = self._held_pc_counts[i] > 0, for each layer
highlighted(w) == [i \in 1..N_LAYERS |-> w[i] > 0]

----------------------------------------------------------------------------
(* ScreenMatrix (src/screen_wrapper.py): the pygame window.  shown is what *)
(* the window displays: nothing yet, the latest frame, or black.           *)

ScreenMatrixInit ==
    [closed |-> FALSE, fullscreen |-> FALSE, screen |-> TRUE, shown |-> "none"]

\* the event loop of SwapOnVSync: QUIT, Escape and q close; f toggles
\* fullscreen and re-creates the window with pygame.display.set_mode, which
\* shows neither the last frame nor a cleared one until the next flip
RECURSIVE PumpEvents(_, _)
PumpEvents(mx, events) ==
    IF events = <<>> THEN mx
    ELSE LET e == Head(events)
             m1 == IF e \in {"quit", "key_escape", "key_q"}
                   THEN [mx EXCEPT !.closed = TRUE] ELSE mx
             m2 == IF e = "key_f"
                   THEN [m1 EXCEPT !.fullscreen = ~@, !.shown = "recreated"]
                   ELSE m1
         IN  PumpEvents(m2, Tail(events))

\* raised: SwapOnVSync left by raise ScreenClosed
SwapOnVSync(mx, events) ==
    IF mx.closed \/ ~mx.screen
    THEN [matrix |-> mx, raised |-> FALSE]
    ELSE LET m1 == PumpEvents(mx, events)
         IN  IF m1.closed
             THEN [matrix |-> m1, raised |-> TRUE]
             ELSE [matrix |-> [m1 EXCEPT !.shown = "frame"], raised |-> FALSE]

\* the states of the window inside the event loop of SwapOnVSync, before
\* the flip: after each event handled, and for an f between the toggle of the
\* fullscreen flag and the return of set_mode
SwapOnVSync_cuts(mx, events) ==
    {PumpEvents(mx, SubSeq(events, 1, k)) : k \in 0..Len(events)}
    \cup {[PumpEvents(mx, SubSeq(events, 1, k - 1)) EXCEPT !.fullscreen = ~@] :
              k \in {i \in 1..Len(events) : events[i] = "key_f"}}

\* ScreenMatrix.Clear(): fill black and flip, unless the window is closed
Clear(mx) ==
    IF mx.screen /\ ~mx.closed THEN [mx EXCEPT !.shown = "black"] ELSE mx

----------------------------------------------------------------------------
(* History: what the event stream itself says, computed from the messages  *)
(* handed to drain() and not from the tracker's fields                     *)

\* the messages drain() gets to see: those before the first backend failure
RECURSIVE Received(_)
Received(items) ==
    IF items = <<>> \/ Head(items).kind = "raise"
    THEN <<>>
    ELSE <<Head(items).data>> \o Received(Tail(items))

RECURSIVE TicksSinceReset(_, _)
TicksSinceReset(n, msgs) ==
    IF msgs = <<>> THEN n
    ELSE LET d == Head(msgs)
         IN  IF d = MsgTick THEN TicksSinceReset(n + 1, Tail(msgs))
             ELSE IF d = MsgStart \/ d = MsgStop THEN TicksSinceReset(0, Tail(msgs))
             ELSE TicksSinceReset(n, Tail(msgs))

HasStart(msgs) == \E i \in 1..Len(msgs) : msgs[i] = MsgStart

\* the note events the messages msgs stand for, stamped t: a complete message
\* with status 0x8n or 0x9n is a note, on only for 0x9n with a velocity above 0
RECURSIVE NotesOf(_, _)
NotesOf(msgs, t) ==
    IF msgs = <<>> THEN <<>>
    ELSE LET d == Head(msgs)
             nibble == (d[1] % 256) \div 16
         IN  (IF Len(d) >= 3 /\ nibble \in {8, 9}
              THEN <<[channel |-> (d[1] % 16) + 1, note |-> d[2] % 128,
                      velocity |-> d[3] % 128,
                      is_on |-> (nibble = 9 /\ d[3] % 128 > 0), t |-> t]>>
              ELSE <<>>)
             \o NotesOf(Tail(msgs), t)

\* the latest call was a drain() and the last message it received was d
AfterEvent(d) ==
    /\ call.op = "drain"
    /\ LET msgs == Received(call.items)
       IN  msgs # <<>> /\ msgs[Len(msgs)] = d

----------------------------------------------------------------------------
(* The calls a client makes on the MidiInput object *)

ClockInit ==
    /\ midi = MidiInit(TRUE)
    /\ now = 0
    /\ call = [op |-> "init", now_t |-> 0, items |-> <<>>]
    /\ ret = <<>>
    /\ pre = MidiInit(TRUE)
    /\ frames = 0
    /\ since_reset = 0
    /\ pulse_reads = 0
    /\ pulse_due = FALSE
    /\ disturbed = FALSE
    /\ polled = 0
    /\ noted = <<>>
    /\ last_beat_index = None
    /\ beat_edge = FALSE
    /\ edge_log = <<>>
    /\ matrix = ScreenMatrixInit
    /\ run = "loop"
    /\ waves = MultiSinwavesInit
    /\ pre_waves = MultiSinwavesInit

\* a router to which the given bindings have been added, and the effects they target
RouterInit(bindings, fx) ==
    /\ router = RouterOf(bindings)
    /\ effects = fx
    /\ sunk = <<>>
    /\ fed = [b \in 1..Len(bindings) |-> <<>>]
    /\ nfed = 0

Init == ClockInit /\ RouterInit(<<>>, <<>>)

\* midi.drain(now_t) while the backend holds the messages items
DrainCall(now_t, items) ==
    LET r == drain(midi, now_t, items)
    IN  /\ Len(r.midi.note_queue) <= MaxNotes
        /\ midi' = r.midi
        /\ ret' = r.out
        /\ now' = now_t
        /\ call' = [op |-> "drain", now_t |-> now_t, items |-> items]
        /\ pre' = midi
        /\ frames' = IF now_t > now THEN frames + 1 ELSE frames
        /\ since_reset' = TicksSinceReset(since_reset, Received(items))
        /\ pulse_reads' = IF HasStart(Received(items)) THEN 0 ELSE pulse_reads
        /\ pulse_due' = (HasStart(Received(items)) \/ pulse_due)
        /\ noted' = noted \o NotesOf(Received(items), now_t)
        /\ UNCHANGED <<routervars, loopvars, showvars>>

ClockStateCall ==
    LET r == clock_state(midi)
    IN  /\ midi' = r.midi
        /\ ret' = r.ret
        /\ call' = [op |-> "clock_state", now_t |-> now, items |-> <<>>]
        /\ pre' = midi
        /\ pulse_reads' = IF r.ret[3] THEN IF pulse_reads < 2 THEN pulse_reads + 1 ELSE 2
                          ELSE pulse_reads
        /\ pulse_due' = FALSE
        /\ UNCHANGED <<now, frames, since_reset, disturbed, polled, noted, routervars,
                       loopvars, showvars>>

ClockDebugStateCall ==
    /\ ret' = clock_debug_state(midi)
    /\ call' = [op |-> "clock_debug_state", now_t |-> now, items |-> <<>>]
    /\ pre' = midi
    /\ UNCHANGED <<midi, now, frames, since_reset, pulse_reads, pulse_due, disturbed,
                   polled, noted, routervars, loopvars, showvars>>

----------------------------------------------------------------------------
(* SpecClock: the clock tracker under single clock events.  Each event is  *)
(* one drain() call whose poll yields that one message; a Tick comes with  *)
(* the gap to the previous poll.                                           *)

\* gaps between ticks: just below / at the lower limit, at / just above the upper
Steps == {16, 17, 2048, 2049}

MsgCC == <<176, 5, 64>>

TickEvent ==
    /\ frames < MaxFrames
    /\ \E d \in Steps : DrainCall(now + d, <<Msg(MsgTick)>>)
    /\ UNCHANGED <<disturbed, polled>>

StartEvent == DrainCall(now, <<Msg(MsgStart)>>) /\ UNCHANGED <<disturbed, polled>>

StopEvent == DrainCall(now, <<Msg(MsgStop)>>) /\ UNCHANGED <<disturbed, polled>>

ContinueEvent == DrainCall(now, <<Msg(MsgContinue)>>) /\ UNCHANGED <<disturbed, polled>>

OtherEvent ==
    /\ \E d \in {MsgCC, MsgActiveSense} : DrainCall(now, <<Msg(d)>>)
    /\ UNCHANGED <<disturbed, polled>>

NextClock ==
    \/ TickEvent
    \/ StartEvent
    \/ StopEvent
    \/ ContinueEvent
    \/ OtherEvent
    \/ ClockStateCall
    \/ ClockDebugStateCall

SpecClock == Init /\ [][NextClock]_vars

----------------------------------------------------------------------------
(* SpecTempo: a steady clock source, one tick per poll every 500 ms / 24,  *)
(* with at most one disturbance in a run: one late tick (0.5 s), a Stop or *)
(* a Start.                                                                *)

TEMPO_STEP == (UnitsPerSec \div 2) \div CLOCK_PPQN   \* 500 ms / 24, rounded down

\* The steady source sends tick number k at k * 500 ms / 24, rounded to the
\* nearest time unit.  NextTickTime(t) is the time of the tick after the one
\* sent at time t (t is the time of tick number (6 * t + 512) \div 1024).
NextTickTime(t) ==
    LET k == (6 * t + 512) \div 1024
    IN  (1024 * (k + 1) + 3) \div 6
LATE_STEP == UnitsPerSec \div 2                        \* 0.5 s

TempoTick ==
    /\ frames < MaxTempoTicks
    /\ DrainCall(NextTickTime(now), <<Msg(MsgTick)>>)
    /\ UNCHANGED <<disturbed, polled>>

LateTick ==
    /\ frames < MaxTempoTicks
    /\ ~disturbed
    /\ DrainCall(now + LATE_STEP, <<Msg(MsgTick)>>)
    /\ disturbed' = TRUE
    /\ UNCHANGED polled

TempoReset ==
    /\ ~disturbed
    /\ \E d \in {MsgStart, MsgStop} : DrainCall(now, <<Msg(d)>>)
    /\ disturbed' = TRUE
    /\ UNCHANGED polled

NextTempo ==
    \/ TempoTick
    \/ LateTick
    \/ TempoReset
    \/ ClockDebugStateCall

SpecTempo == Init /\ [][NextTempo]_vars

----------------------------------------------------------------------------
(* SpecWindow: a jittering clock source, one tick per poll.  The gap before *)
(* a tick depends on how many ticks came since the last Start or Stop: it  *)
(* cycles through 164..170 units (20 ms and a little more), and every      *)
(* tenth gap is just above the upper limit.  At most one Start or Stop in  *)
(* a run.                                                                  *)

\* the time between tick number i since the last reset and the next tick
WindowGap(i) == IF i % 10 = 9 THEN MAX_DT + 1 ELSE 164 + (i % 7)

WindowTick ==
    /\ frames < MaxTempoTicks
    /\ DrainCall(now + WindowGap(since_reset), <<Msg(MsgTick)>>)
    /\ UNCHANGED <<disturbed, polled>>

WindowReset ==
    /\ ~disturbed
    /\ \E d \in {MsgStart, MsgStop} : DrainCall(now, <<Msg(d)>>)
    /\ disturbed' = TRUE
    /\ UNCHANGED polled

SpecWindow == Init /\ [][WindowTick \/ WindowReset]_vars

----------------------------------------------------------------------------
(* The calls a client makes on the MidiRouter and on its bindings' resolvers *)

\* the events of a batch that binding b watches
RECURSIVE Watched(_, _)
Watched(ccs, cc_msgs) ==
    IF cc_msgs = <<>> THEN <<>>
    ELSE (IF Head(cc_msgs).control \in ccs THEN <<Head(cc_msgs)>> ELSE <<>>)
         \o Watched(ccs, Tail(cc_msgs))

\* the batches of at most MaxBatch events
RECURSIVE BatchesOf(_, _)
BatchesOf(events, n) ==
    IF n = 0 THEN {<<>>}
    ELSE LET shorter == BatchesOf(events, n - 1)
         IN  shorter \cup {Append(b, e) : b \in {x \in shorter : Len(x) = n - 1},
                                          e \in events}

ProcessCall(cc_msgs) ==
    /\ nfed + Len(cc_msgs) <= MaxFed
    /\ LET r == process(router, effects, cc_msgs)
       IN  /\ router' = r.router
           /\ effects' = r.effects
           /\ sunk' = r.sunk
           /\ ret' = IF r.raised THEN <<"raised">> ELSE <<>>
    /\ call' = [op |-> "process", now_t |-> now, items |-> cc_msgs]
    /\ fed' = [b \in DOMAIN fed |->
                  fed[b] \o Watched(router.bindings[b].ccs, cc_msgs)]
    /\ nfed' = nfed + Len(cc_msgs)
    /\ UNCHANGED <<clockvars, loopvars, showvars>>

\* binding.resolver.reset()
ResetCall(b) ==
    /\ router' = [router EXCEPT !.bindings[b].resolver = reset(@)]
    /\ call' = [op |-> "reset", now_t |-> now, items |-> <<b>>]
    /\ ret' = <<>>
    /\ fed' = [fed EXCEPT ![b] = <<>>]
    /\ UNCHANGED <<effects, sunk, nfed, clockvars, loopvars, showvars>>

\* router.add(binding)
AddCall(binding) ==
    /\ router' = RouterAdd(router, binding)
    /\ call' = [op |-> "add", now_t |-> now, items |-> <<Len(router.bindings) + 1>>]
    /\ ret' = <<>>
    /\ fed' = Append(fed, <<>>)
    /\ UNCHANGED <<effects, sunk, nfed, clockvars, loopvars, showvars>>

\* effect.params[name].reset()
ParamResetCall(target, name) ==
    /\ effects' = [effects EXCEPT ![target].params[name] = Param_reset(@)]
    /\ call' = [op |-> "param_reset", now_t |-> now, items |-> <<target, name>>]
    /\ ret' = <<>>
    /\ UNCHANGED <<router, sunk, fed, nfed, clockvars, loopvars, showvars>>

\* router.process(cc_msgs) called again with the batch of the call just made
ReplayCall ==
    /\ call.op = "process"
    /\ call.items # <<>>
    /\ LET r == process(router, effects, call.items)
       IN  /\ router' = r.router
           /\ effects' = r.effects
           /\ sunk' = r.sunk
           /\ ret' = IF r.raised THEN <<"raised">> ELSE <<>>
    /\ call' = [call EXCEPT !.op = "replay"]
    /\ fed' = [b \in DOMAIN fed |->
                  fed[b] \o Watched(router.bindings[b].ccs, call.items)]
    /\ UNCHANGED <<nfed, clockvars, loopvars, showvars>>

----------------------------------------------------------------------------
(* SpecResolver: three bindings, one per strategy, watch the same control  *)
(* number, so that every event is fed to a resolver of each strategy.      *)
(* Events arrive one per process() call, in any order of timestamps.       *)

ResolverBindings ==
    << CCBinding({5}, "fx", "a", IdentityTransform, MOST_RECENT_OF_ANY),
       CCBinding({5}, "fx", "b", IdentityTransform, AVERAGE_OF_LAST_PER_CHANNEL),
       CCBinding({5}, "fx", "c", IdentityTransform, CUSTOM) >>

ResolverEffects ==
    [e \in {"fx"} |-> EffectOf([q \in {"a", "b", "c"} |-> <<0, 1>>])]

\* timestamps 1.0 s, 1.5 s and 2.0 s
ResolverEvents ==
    {MidiCC(ch, 5, v, t) : ch \in {1, 2}, v \in {5, 10, 80}, t \in {8192, 12288, 16384}}
    \cup {MidiCC(1, 5, 0, 8192), MidiCC(2, 5, 127, 8192)}

InitResolver == ClockInit /\ RouterInit(ResolverBindings, ResolverEffects)

FeedEvent == \E e \in ResolverEvents : ProcessCall(<<e>>)

NextResolver == FeedEvent

SpecResolver == InitResolver /\ [][NextResolver]_vars

----------------------------------------------------------------------------
(* SpecRouter: three bindings on two effects.  Control 5 feeds two         *)
(* bindings, one binding watches two controls, the middle binding names a  *)
(* parameter its effect does not have, and control 3 is mapped to nothing. *)
(* The router starts empty and the bindings are added in this order, each  *)
(* at any time: before the first process() call or between two calls.      *)

RouterBindings ==
    << CCBinding({5}, "wave", "speed", LinearTransform(<<0, 1>>, <<2, 1>>),
                 MOST_RECENT_OF_ANY),
       CCBinding({5, 7}, "wave", "nope", IdentityTransform,
                 AVERAGE_OF_LAST_PER_CHANNEL),
       CCBinding({7}, "stars", "speed", RawCCTransform, CUSTOM) >>

RouterEffects ==
    [e \in {"wave", "stars"} |->
        IF e = "wave" THEN EffectOf([q \in {"speed", "color"} |-> <<0, 1>>])
        ELSE EffectOf([q \in {"speed"} |-> <<0, 1>>])]

RouterEvents ==
    {MidiCC(1, c, v, 8192) : c \in {5, 7}, v \in {10, 80}}
    \cup {MidiCC(2, 5, 80, 8192), MidiCC(1, 3, 10, 8192)}

InitRouter == ClockInit /\ RouterInit(<<>>, RouterEffects)

\* the longest batch the bounds still allow
BatchRoom == IF MaxFed - nfed < MaxBatch THEN MaxFed - nfed ELSE MaxBatch

RouteEvents == \E b \in BatchesOf(RouterEvents, BatchRoom) : ProcessCall(b)

ResetResolver == \E b \in 1..Len(router.bindings) : ResetCall(b)

AddBinding ==
    /\ Len(router.bindings) < Len(RouterBindings)
    /\ AddCall(RouterBindings[Len(router.bindings) + 1])

SpecRouter == InitRouter /\ [][RouteEvents \/ ResetResolver \/ AddBinding]_vars

----------------------------------------------------------------------------
(* SpecReplay: batches of events with timestamps in any order, on two      *)
(* channels and two controls, each batch possibly processed a second time. *)

ReplayBindings ==
    << CCBinding({5}, "wave", "speed", LinearTransform(<<0, 1>>, <<2, 1>>),
                 MOST_RECENT_OF_ANY),
       CCBinding({5, 7}, "wave", "color", IdentityTransform,
                 AVERAGE_OF_LAST_PER_CHANNEL) >>

\* timestamps 1.0 s and 2.0 s
ReplayEvents ==
    {MidiCC(ch, 5, v, t) : ch \in {1, 2}, v \in {10, 80}, t \in {8192, 16384}}
    \cup {MidiCC(1, 7, 127, 8192)}

InitReplay == ClockInit /\ RouterInit(ReplayBindings, RouterEffects)

ReplayBatch == \E b \in BatchesOf(ReplayEvents, BatchRoom) : ProcessCall(b)

SpecReplay == InitReplay /\ [][ReplayBatch \/ ReplayCall]_vars

----------------------------------------------------------------------------
(* SpecSink: three bindings on control 5.  The first names a parameter its *)
(* Effect does not have, the second targets an object whose set_param      *)
(* raises, the third (also on control 7) targets an Effect parameter.      *)

SinkBindings ==
    << CCBinding({5}, "wave", "nope", IdentityTransform, MOST_RECENT_OF_ANY),
       CCBinding({5}, "ext", "gain", IdentityTransform, MOST_RECENT_OF_ANY),
       CCBinding({5, 7}, "stars", "speed", RawCCTransform, MOST_RECENT_OF_ANY) >>

SinkEffects ==
    [e \in {"wave", "ext", "stars"} |->
        IF e = "ext" THEN RaisingSink
        ELSE EffectOf([q \in {"speed"} |-> <<0, 1>>])]

SinkEvents == {MidiCC(ch, c, v, 8192) : ch \in {1, 2}, c \in {5, 7}, v \in {10, 80}}

InitSink == ClockInit /\ RouterInit(SinkBindings, SinkEffects)

SinkBatch == \E b \in BatchesOf(SinkEvents, BatchRoom) : ProcessCall(b)

ResetParam ==
    \E e \in {x \in DOMAIN effects : effects[x].kind = "effect"} :
        \E q \in DOMAIN effects[e].params : ParamResetCall(e, q)

SpecSink == InitSink /\ [][SinkBatch \/ ResetParam]_vars

----------------------------------------------------------------------------
(* SpecDrain: the render loop of main.py with MIDI sync enabled.  A frame,  *)
(* every 500 ms / 24, drains the port (finding a batch of messages of any  *)
(* kind) and then the note queue, reads clock_state(), and while the clock *)
(* runs reads clock_debug_state().                                         *)

MsgNoteOn == <<144, 60, 100>>

MsgNoteOff == <<128, 60, 0>>

DrainItems ==
    {Msg(d) : d \in {MsgTick, MsgStart, MsgContinue, MsgStop,
                     MsgCC, MsgNoteOn, MsgNoteOff}}
    \cup {BackendRaise}

\* the longest batch the bounds still allow
PollRoom == IF MaxPolled - polled < MaxPoll THEN MaxPolled - polled ELSE MaxPoll

\* cc_msgs = midi.drain(now_t=t_point); note_msgs = midi.drain_notes()
\* The previous frame is over: its clock_state() found the clock stopped, or
\* its clock_debug_state() has been read.
PollFrame ==
    /\ \/ call.op = "init"
       \/ call.op = "clock_state" /\ ~ret[1]
       \/ call.op = "clock_debug_state"
    /\ frames < MaxDrainFrames
    /\ \E items \in BatchesOf(DrainItems, PollRoom) :
           LET now_t == now + TEMPO_STEP
               d == drain(midi, now_t, items)
               n == drain_notes(d.midi)
           IN  /\ midi' = n.midi
               /\ ret' = [cc_msgs |-> d.out, note_msgs |-> n.ret]
               /\ now' = now_t
               /\ call' = [op |-> "drain", now_t |-> now_t, items |-> items]
               /\ pre' = midi
               /\ frames' = frames + 1
               /\ since_reset' = TicksSinceReset(since_reset, Received(items))
               /\ pulse_reads' = IF HasStart(Received(items)) THEN 0 ELSE pulse_reads
               /\ pulse_due' = (HasStart(Received(items)) \/ pulse_due)
               /\ noted' = <<>>
               /\ polled' = polled + Len(items)
    /\ UNCHANGED <<disturbed, routervars, loopvars, showvars>>

\* running, bpm, start_pulse = midi.clock_state()
SyncFrame == call.op = "drain" /\ ClockStateCall

\* if running: _, _, ticks, _, _ = midi.clock_debug_state()
DebugFrame == call.op = "clock_state" /\ ret[1] /\ ClockDebugStateCall

SpecDrain == Init /\ [][PollFrame \/ SyncFrame \/ DebugFrame]_vars

----------------------------------------------------------------------------
(* Properties of the clock tracker *)

IsTickCall == call.op = "drain" /\ call.items = <<Msg(MsgTick)>>

\* |bpm - target| <= target * pct / 1000  (pct in tenths of a percent)
BpmWithin(bpm, target, permille) ==
    LET diff == bpm[1] - target * bpm[2]
        absd == IF diff < 0 THEN 0 - diff ELSE diff
    IN  1000 * absd <= permille * target * bpm[2]

\* C1: a Start event received after ticks and a bpm estimate have accumulated
\* (as after any other history) leaves the tracker running, with tick count 0,
\* an empty interval window, no bpm estimate and the start pulse pending.
C1_StartResets ==
    AfterEvent(MsgStart) =>
        /\ midi.clock_running
        /\ midi.clock_tick_count = 0
        /\ midi.clock_tick_dts = <<>>
        /\ midi.clock_bpm = None
        /\ midi.clock_start_pulse

C1_Witness ==
    /\ AfterEvent(MsgStart)
    /\ pre.clock_tick_count >= 5
    /\ pre.clock_bpm # None
    /\ Len(pre.clock_tick_dts) >= 4

\* C2: the start pulse is one-shot.  A clock_state() call reports the pulse
\* exactly when a Start was received and no clock_state() call came after that
\* Start: the first call after a Start reports it, every later call reports
\* false until another Start, so at most one call per Start observes it.
C2_OneShotPulse ==
    [][ /\ call'.op = "clock_state" => (ret'[3] <=> pulse_due)
        /\ pulse_reads' <= 1 ]_vars

C2_Witness ==
    /\ call.op = "clock_state"
    /\ pulse_reads = 1
    /\ ~pre.clock_start_pulse
    /\ ret[3] = FALSE

\* C3: a Stop event, whatever the state it is received in, leaves the tracker
\* not running, with tick count 0, an empty interval window and no bpm estimate.
C3_StopResets ==
    AfterEvent(MsgStop) =>
        /\ ~midi.clock_running
        /\ midi.clock_tick_count = 0
        /\ midi.clock_tick_dts = <<>>
        /\ midi.clock_bpm = None

C3_Witness ==
    /\ AfterEvent(MsgStop)
    /\ pre.clock_running
    /\ pre.clock_tick_count >= 5
    /\ pre.clock_bpm # None

\* C5: the bpm estimate is defined only while the interval window holds at
\* least 4 intervals, and the window never holds more than 96 intervals.
C5_BpmNeedsWindow ==
    /\ midi.clock_bpm # None => Len(midi.clock_tick_dts) >= 4
    /\ Len(midi.clock_tick_dts) <= 96

C5_Witness ==
    /\ Len(midi.clock_tick_dts) = 96
    /\ midi.clock_tick_count > 98
    /\ midi.clock_bpm # None

\* C6: a Tick whose interval to the previous tick is below 0.002 s or above
\* 0.25 s leaves the interval window and the bpm estimate unchanged, and still
\* increments the tick count, leaves the tracker running and makes its own
\* timestamp the previous-tick timestamp.
C6_SpuriousTick ==
    [][ ( /\ call'.op = "drain"
          /\ call'.items = <<Msg(MsgTick)>>
          /\ midi.clock_last_tick_t # None
          /\ LET dt == call'.now_t - midi.clock_last_tick_t[1]
             IN  dt < 17 \/ dt > 2048 )
        => /\ midi'.clock_tick_dts = midi.clock_tick_dts
           /\ midi'.clock_bpm = midi.clock_bpm
           /\ midi'.clock_tick_count = midi.clock_tick_count + 1
           /\ midi'.clock_running
           /\ midi'.clock_last_tick_t = Some(call'.now_t) ]_vars

C6_Witness ==
    /\ IsTickCall
    /\ pre.clock_bpm # None
    /\ midi.clock_last_dt # None
    /\ midi.clock_last_dt[1] > 2048
    /\ midi.clock_bpm = pre.clock_bpm
    /\ midi.clock_tick_count = pre.clock_tick_count + 1

\* C7 (as stated): a steady stream of ticks 500 ms / 24 apart brings the bpm
\* estimate to within 1% of 60 by the 24th tick.
C7_Original ==
    (~disturbed /\ since_reset >= 24) =>
        /\ midi.clock_bpm # None
        /\ BpmWithin(midi.clock_bpm, 60, 10)

\* C7 (amended): a steady stream of ticks 500 ms / 24 apart brings the bpm
\* estimate to within 1% of 120 by the 24th tick (it is defined from the 5th
\* tick on), and it stays within 0.5% of 120 for 100 more ticks.
C7_TempoConverges ==
    (~disturbed /\ since_reset >= 5) =>
        /\ midi.clock_bpm # None
        /\ since_reset >= 24 => BpmWithin(midi.clock_bpm, 120, 10)
        /\ since_reset > 24 => BpmWithin(midi.clock_bpm, 120, 5)

C7_Witness ==
    /\ ~disturbed
    /\ since_reset = 124
    /\ midi.clock_bpm # None
    /\ Len(midi.clock_tick_dts) = 96

\* C4: the tick count is the number of Tick events received since the latest
\* Start or Stop event (since construction when there was none): a Tick adds
\* one, Start and Stop reset it, and no other message or call changes it.
C4_TickCount == midi.clock_tick_count = since_reset

C4_Witness ==
    /\ call.op = "drain"
    /\ call.items = <<Msg(MsgStop), Msg(MsgTick)>>
    /\ pre.clock_tick_count = 2
    /\ midi.clock_tick_count = 1

----------------------------------------------------------------------------
(* Properties of the resolvers and the router *)

\* the place in h of the event with the greatest timestamp, the last such one
LatestIndex(h) ==
    CHOOSE i \in 1..Len(h) :
        \A j \in 1..Len(h) : h[j].t < h[i].t \/ (h[j].t = h[i].t /\ j <= i)

\* the value of the event of h fed last on channel ch
LastOfChannel(h, ch) ==
    LET i == CHOOSE k \in 1..Len(h) :
                 h[k].channel = ch /\ \A j \in (k + 1)..Len(h) : h[j].channel # ch
    IN  h[i].value

ChannelsOf(h) == {h[i].channel : i \in 1..Len(h)}

\* C8: a MostRecentOfAny resolver resolves to value / 127 of the fed event
\* with the greatest timestamp, the last fed among those of equal timestamp,
\* whatever the channels and the order of arrival.
C8_MostRecentOfAny ==
    fed[1] # <<>> =>
        LET v == fed[1][LatestIndex(fed[1])].value
            u == resolve(router.bindings[1].resolver)
        IN  u # None /\ u[1] * 127 = v * u[2]

C8_Witness ==
    /\ Len(fed[1]) = 3
    /\ fed[1][1].value = 10 /\ fed[1][1].t = 8192
    /\ fed[1][2].value = 80 /\ fed[1][2].t = 16384
    /\ fed[1][3].value = 5 /\ fed[1][3].t = 12288
    /\ resolve(router.bindings[1].resolver) = <<80, 127>>

\* C9: an AverageOfLastPerChannel resolver resolves to k / 127 where k is the
\* integer nearest to the mean of the last values of the channels that have
\* reported, each channel counted once; channel 1 -> 0 and channel 2 -> 127
\* resolve to 64/127, which is 0.5 within that rounding.
C9_AverageOfLastPerChannel ==
    fed[2] # <<>> =>
        LET h == fed[2]
            chans == ChannelsOf(h)
            n == Cardinality(chans)
            total == DictSum([ch \in chans |-> LastOfChannel(h, ch)], chans)
            u == resolve(router.bindings[2].resolver)
        IN  /\ u # None
            /\ \E k \in 0..127 :
                   /\ u[1] * 127 = k * u[2]
                   /\ 2 * Abs(k * n - total) <= n

C9_Witness ==
    /\ Len(fed[2]) = 2
    /\ fed[2][1].channel = 1 /\ fed[2][1].value = 0
    /\ fed[2][2].channel = 2 /\ fed[2][2].value = 127
    /\ resolve(router.bindings[2].resolver) = <<64, 127>>

\* C10: a resolver of any strategy that has been fed no event since it was
\* made or reset resolves to no value, and a process() call invokes no sink
\* of a binding that has been fed no event.
C10_NoValueBeforeData ==
    \A b \in 1..Len(router.bindings) :
        fed[b] = <<>> =>
            /\ resolve(router.bindings[b].resolver) = None
            /\ call.op = "process" =>
                   \A i \in 1..Len(sunk) : sunk[i].binding # b

C10_Witness ==
    /\ call.op = "reset"
    /\ \E i \in 1..Len(sunk) : sunk[i].binding = call.items[1]
    /\ router.bindings[call.items[1]].resolver.strategy = CUSTOM
    /\ fed[call.items[1]] = <<>>
    /\ resolve(router.bindings[call.items[1]].resolver) = None

----------------------------------------------------------------------------
(* The render loop of main.py with MIDI sync enabled: one iteration *)

\* mutant: the beat edge compares the tick count, not the beat index
BeatIndexOf_ticks(ticks) == ticks

\* beat_index = int(ticks) // 24
BeatIndexOf(ticks) == ticks \div CLOCK_PPQN

\* one iteration of the loop: drain(), drain_notes(), clock_state(), and while
\* the clock runs clock_debug_state() and the beat-edge test
RenderFrame(items) ==
    LET now_t == now + TEMPO_STEP
        d == drain(midi, now_t, items)
        n == drain_notes(d.midi)
        c == clock_state(n.midi)
        running == c.ret[1]
        start_pulse == c.ret[3]
        relocked == IF start_pulse THEN None ELSE last_beat_index
        ticks == clock_debug_state(c.midi)[3]
        beat_index == BeatIndexOf(ticks)
        edge == running /\ Some(beat_index) # relocked
    IN  /\ frames < MaxBeatFrames
        /\ midi' = c.midi
        /\ ret' = d.out
        /\ now' = now_t
        /\ call' = [op |-> "frame", now_t |-> now_t, items |-> items]
        /\ pre' = midi
        /\ frames' = frames + 1
        /\ since_reset' = TicksSinceReset(since_reset, Received(items))
        /\ pulse_reads' = IF start_pulse THEN 1 ELSE pulse_reads
        /\ pulse_due' = FALSE
        /\ noted' = <<>>
        /\ last_beat_index' = IF edge THEN Some(beat_index) ELSE relocked
        /\ beat_edge' = edge
        /\ edge_log' = IF edge
                       THEN Append(IF start_pulse THEN <<>> ELSE edge_log, ticks)
                       ELSE IF start_pulse THEN <<>> ELSE edge_log
        /\ UNCHANGED <<polled, routervars>>

----------------------------------------------------------------------------
(* SpecBeat: a clock source that sends one tick per frame, with at most    *)
(* one disturbance in a run: a frame with two ticks, a frame with no       *)
(* message, or a Start.                                                    *)

BeatTick == RenderFrame(<<Msg(MsgTick)>>) /\ UNCHANGED <<disturbed, showvars>>

BeatDisturbance ==
    /\ ~disturbed
    /\ \E items \in {<<Msg(MsgTick), Msg(MsgTick)>>, <<>>, <<Msg(MsgStart)>>} :
           RenderFrame(items)
    /\ disturbed' = TRUE
    /\ UNCHANGED showvars

SpecBeat == Init /\ [][BeatTick \/ BeatDisturbance]_vars

----------------------------------------------------------------------------
(* SpecWaves: a MultiSinwavesEffect receiving note events, in and out of   *)
(* the MIDI range and on three pitch classes, activate() and draw() calls. *)

\* notes -1 and 128 are out of range; 0, 12 and 60 share pitch class 0
WaveNotes == {-1, 0, 11, 12, 60, 127, 128}

HandleNoteCall ==
    \E n \in WaveNotes, is_on \in BOOLEAN :
        LET w == handle_note(waves, MidiNote(1, n, 100, is_on, now))
        IN  /\ \A i \in 1..N_LAYERS : w[i] <= MaxHeld
            /\ waves' = w
            /\ pre_waves' = waves
            /\ call' = [op |-> "handle_note", now_t |-> now, items |-> <<n, is_on>>]
            /\ ret' = <<>>
            /\ UNCHANGED <<clockvars, routervars, loopvars, matrix, run>>

ActivateCall ==
    /\ waves' = activate(waves)
    /\ pre_waves' = waves
    /\ call' = [op |-> "activate", now_t |-> now, items |-> <<>>]
    /\ ret' = <<>>
    /\ UNCHANGED <<clockvars, routervars, loopvars, matrix, run>>

DrawCall ==
    /\ ret' = highlighted(waves)
    /\ pre_waves' = waves
    /\ call' = [op |-> "draw", now_t |-> now, items |-> <<>>]
    /\ UNCHANGED <<clockvars, routervars, loopvars, matrix, run, waves>>

SpecWaves == Init /\ [][HandleNoteCall \/ ActivateCall \/ DrawCall]_vars

----------------------------------------------------------------------------
(* SpecRun: run() of src/main.py on a ScreenMatrix.  Every pass of the     *)
(* loop drains one tick, derives the beat edge and swaps the canvas while  *)
(* the window delivers its pending events.  run records where run()        *)
(* stands: in the loop "loop" at the top of a pass, "drained" after        *)
(* drain() and drain_notes(), "synced" after the clock block; in a handler *)
(* "closing" (ScreenClosed caught), "interrupting" (KeyboardInterrupt      *)
(* caught), "failing" (another exception caught); and left, "returned",    *)
(* "raised" (by the re-raised exception) or "interrupted" (by a            *)
(* KeyboardInterrupt that no handler caught).  A keyboard interrupt is     *)
(* asynchronous: it can arrive between two steps, inside the tick handler  *)
(* of drain(), inside the event loop of SwapOnVSync, and inside a handler. *)
(* Another exception can come from the statements after the clock block    *)
(* (activate, Clear, draw) and from the pygame calls of SwapOnVSync.       *)

\* what pygame.event.get() yields during one SwapOnVSync
WindowEvents ==
    {<<>>, <<"other">>, <<"key_f">>, <<"quit">>, <<"key_escape">>, <<"key_q">>,
     <<"key_f", "key_q">>, <<"key_q", "key_f">>}

\* cc_msgs = midi.drain(now_t); note_msgs = midi.drain_notes()
RunDrain ==
    LET now_t == now + TEMPO_STEP
        items == <<Msg(MsgTick)>>
        d == drain(midi, now_t, items)
        n == drain_notes(d.midi)
    IN  /\ run = "loop"
        /\ frames < MaxBeatFrames
        /\ midi' = n.midi
        /\ ret' = d.out
        /\ now' = now_t
        /\ call' = [op |-> "drain", now_t |-> now_t, items |-> items]
        /\ pre' = midi
        /\ frames' = frames + 1
        /\ since_reset' = TicksSinceReset(since_reset, Received(items))
        /\ noted' = <<>>
        /\ run' = "drained"
        /\ UNCHANGED <<pulse_reads, pulse_due, disturbed, polled, routervars, loopvars,
                       matrix, waves, pre_waves>>

\* the clock block: clock_state(), and while the clock runs
\* clock_debug_state() and the beat-edge test
RunBeat ==
    LET c == clock_state(midi)
        running == c.ret[1]
        start_pulse == c.ret[3]
        relocked == IF start_pulse THEN None ELSE last_beat_index
        ticks == clock_debug_state(c.midi)[3]
        beat_index == BeatIndexOf(ticks)
        edge == running /\ Some(beat_index) # relocked
    IN  /\ run = "drained"
        /\ midi' = c.midi
        /\ ret' = c.ret
        /\ call' = [op |-> "clock_state", now_t |-> now, items |-> <<>>]
        /\ pre' = midi
        /\ pulse_reads' = IF start_pulse THEN 1 ELSE pulse_reads
        /\ pulse_due' = FALSE
        /\ last_beat_index' = IF edge THEN Some(beat_index) ELSE relocked
        /\ beat_edge' = edge
        /\ edge_log' = IF edge
                       THEN Append(IF start_pulse THEN <<>> ELSE edge_log, ticks)
                       ELSE IF start_pulse THEN <<>> ELSE edge_log
        /\ run' = "synced"
        /\ UNCHANGED <<now, frames, since_reset, disturbed, polled, noted, routervars,
                       matrix, waves, pre_waves>>

\* canvas = matrix.SwapOnVSync(canvas); ScreenClosed is caught by the
\* except Exception handler
RunSwap ==
    /\ run = "synced"
    /\ \E events \in WindowEvents :
           LET r == SwapOnVSync(matrix, events)
           IN  /\ matrix' = r.matrix
               /\ run' = IF r.raised THEN "closing" ELSE "loop"
               /\ call' = [op |-> "SwapOnVSync", now_t |-> now, items |-> events]
    /\ UNCHANGED <<ret, clockvars, routervars, loopvars, waves, pre_waves>>

\* a KeyboardInterrupt raised inside the try block and caught.  At the top
\* of a pass it can cut the tick handler of drain(), before SwapOnVSync it
\* can cut the event loop.
RunInterrupt ==
    /\ run \in {"loop", "drained", "synced"}
    /\ \E m2 \in (IF run = "loop" THEN clock_on_tick_cuts(midi, now + TEMPO_STEP)
                                   ELSE {midi}) :
           midi' = m2
    /\ \E events \in WindowEvents :
           \E mx \in SwapOnVSync_cuts(matrix, events) :
               /\ mx # matrix => run = "synced"
               /\ matrix' = mx
    /\ run' = "interrupting"
    /\ call' = [op |-> "KeyboardInterrupt", now_t |-> now, items |-> <<>>]
    /\ UNCHANGED <<ret, now, pre, frames, since_reset, pulse_reads, pulse_due,
                   disturbed, polled, noted, routervars, loopvars, waves, pre_waves>>

\* an exception that is no ScreenClosed, caught by the except Exception
\* handler.  It comes from a statement between the clock block and
\* SwapOnVSync (no event has been handled), from set_mode while the k-th
\* event, an f, is handled (the fullscreen flag is already toggled), or from
\* the blit and flip after all events were handled and none closed the window.
RunError ==
    /\ run = "synced"
    /\ \E events \in WindowEvents :
           \E k \in 0..Len(events) :
               LET m1 == PumpEvents(matrix, SubSeq(events, 1, k))
               IN  \/ /\ k = Len(events)
                      /\ ~m1.closed
                      /\ matrix' = m1
                   \/ /\ k < Len(events)
                      /\ events[k + 1] = "key_f"
                      /\ matrix' = [m1 EXCEPT !.fullscreen = ~@]
    /\ run' = "failing"
    /\ call' = [op |-> "Exception", now_t |-> now, items |-> <<>>]
    /\ UNCHANGED <<ret, clockvars, routervars, loopvars, waves, pre_waves>>

\* the handler runs to its end: except KeyboardInterrupt and the
\* ScreenClosed branch of except Exception print and call matrix.Clear(),
\* then run() returns; the other branch re-raises
RunHandled ==
    /\ run \in {"closing", "interrupting", "failing"}
    /\ matrix' = IF run = "failing" THEN matrix ELSE Clear(matrix)
    /\ run' = IF run = "failing" THEN "raised" ELSE "returned"
    /\ UNCHANGED <<callvars, clockvars, routervars, loopvars, waves, pre_waves>>

\* a KeyboardInterrupt raised inside a handler: no except clause of the same
\* try statement catches it, run() is left by it, before matrix.Clear() or
\* after it
RunAbort ==
    /\ run \in {"closing", "interrupting", "failing"}
    /\ \E cleared \in BOOLEAN :
           /\ cleared => run # "failing"
           /\ matrix' = IF cleared THEN Clear(matrix) ELSE matrix
    /\ run' = "interrupted"
    /\ call' = [op |-> "KeyboardInterrupt", now_t |-> now, items |-> <<>>]
    /\ UNCHANGED <<ret, clockvars, routervars, loopvars, waves, pre_waves>>

SpecRun == Init /\ [][RunDrain \/ RunBeat \/ RunSwap \/ RunInterrupt \/ RunError \/ RunHandled \/ RunAbort]_vars

----------------------------------------------------------------------------
(* SpecSigmoid: a SigmoidTransform of any threshold and steepness (inside  *)
(* and outside their ranges) and three output ranges, applied to inputs at *)
(* the endpoints, between them and beyond them.                            *)

SigmoidThresholds == {<<-1, 2>>, <<0, 1>>, <<1, 4>>, <<1, 2>>, <<1, 1>>, <<3, 2>>}

SigmoidSteepnesses == {<<-1, 1>>, <<0, 1>>, <<1, 2>>, <<10, 1>>}

SigmoidRanges == {<<<<0, 1>>, <<1, 1>>>>, <<<<0, 1>>, <<2, 1>>>>, <<<<1, 2>>, <<3, 2>>>>}

SigmoidInputs == {<<-1, 4>>, <<0, 1>>, <<1, 4>>, <<1, 2>>, <<3, 4>>, <<1, 1>>, <<5, 4>>}

\* SigmoidTransform(low, high, threshold, steepness)(u)
SigmoidApply ==
    \E rg \in SigmoidRanges, th \in SigmoidThresholds, k \in SigmoidSteepnesses,
       u \in SigmoidInputs :
        /\ call' = [op |-> "sigmoid", now_t |-> now,
                    items |-> <<rg[1], rg[2], th, k, u>>]
        /\ ret' = <<TransformCall(SigmoidTransform(rg[1], rg[2], th, k), u)>>
        /\ UNCHANGED <<clockvars, routervars, loopvars, showvars>>

SpecSigmoid == Init /\ [][SigmoidApply]_vars

----------------------------------------------------------------------------
(* SpecDecode: drain() polls that find one message each, of 3 or 4 bytes,  *)
(* with a status byte of every kind: each channel-voice nibble on the      *)
(* first and the last channel, system-common, real-time, and a data byte   *)
(* in the status position; data bytes at both ends of their range and one  *)
(* pair beyond it.                                                         *)

DecodeStatuses ==
    {128, 143, 144, 159, 160, 176, 191, 192, 208, 224, 240, 242, 254, 60}

DecodeMessages ==
    {<<st, d[1], d[2]>> : st \in DecodeStatuses,
                          d \in {<<0, 0>>, <<60, 0>>, <<60, 100>>, <<127, 127>>, <<200, 255>>}}
    \cup {<<144, 60, 100, 7>>, <<176, 5, 64, 7>>}

DecodePoll ==
    /\ polled < MaxDecoded
    /\ \E d \in DecodeMessages : DrainCall(now, <<Msg(d)>>)
    /\ polled' = polled + 1
    /\ UNCHANGED disturbed

SpecDecode == Init /\ [][DecodePoll]_vars

----------------------------------------------------------------------------
(* SpecMalformed: polls whose batches mix truncated messages (no data, a   *)
(* CC and a note-on of two bytes) with one-byte real-time messages and     *)
(* complete CC and note messages.                                          *)

MsgEmpty == <<>>

MsgShortCC == <<176, 5>>

MsgShortNote == <<144, 60>>

MalformedItems ==
    {Msg(d) : d \in {MsgEmpty, MsgShortCC, MsgShortNote,
                     MsgTick, MsgStart, MsgCC, MsgNoteOn}}

MalformedPoll ==
    /\ \E items \in BatchesOf(MalformedItems, PollRoom) :
           /\ items # <<>>
           /\ DrainCall(now, items)
           /\ polled' = polled + Len(items)
    /\ UNCHANGED disturbed

SpecMalformed == Init /\ [][MalformedPoll]_vars

----------------------------------------------------------------------------
(* Claims about the router *)

\* a resolver of the given strategy to which the events evs were fed in order
RECURSIVE FeedAll(_, _)
FeedAll(r, evs) ==
    IF evs = <<>> THEN r ELSE FeedAll(feed(r, Head(evs)), Tail(evs))

\* the set_param calls the latest process() made for binding b
SunkOf(b) == {i \in 1..Len(sunk) : sunk[i].binding = b}

\* the events of the latest batch that binding b watches
Matched(b) == Watched(router.bindings[b].ccs, call.items)

\* C11: routing is many-to-many.  Every binding's resolver holds exactly the
\* events on the control numbers the binding watches (any of them), and after
\* a process() call every binding that an event of the batch matches has had
\* its own resolved value, through its own transform, pushed to its own
\* target and parameter.
C11_ManyToMany ==
    \A b \in 1..Len(router.bindings) :
        LET bd == router.bindings[b]
        IN  /\ bd.resolver = FeedAll(CCResolverInit(bd.resolver.strategy), fed[b])
            /\ (call.op = "process" /\ Matched(b) # <<>>) =>
                   \E i \in SunkOf(b) :
                       /\ sunk[i].target = bd.target
                       /\ sunk[i].param = bd.param
                       /\ resolve(bd.resolver) # None
                       /\ sunk[i].value = TransformCall(bd.transform, resolve(bd.resolver))

\* one batch holding an event on control 5 and one on control 7: control 5
\* reaches bindings 1 and 2, binding 2 is reached by both controls, and the
\* values pushed for bindings 1 and 2 differ
C11_Witness ==
    /\ call.op = "process"
    /\ Len(router.bindings) = Len(RouterBindings)
    /\ Len(call.items) = 2
    /\ call.items[1].control = 5 /\ call.items[2].control = 7
    /\ Len(fed[1]) = 1 /\ Len(fed[2]) = 2 /\ Len(fed[3]) = 1
    /\ Len(sunk) = 3
    /\ sunk[1].value # sunk[2].value

\* C12: a process() call invokes the sink of a binding exactly once when an
\* event of the batch matches the binding and not at all otherwise, and a
\* batch that matches no binding (empty, or unmapped controls only) invokes no
\* sink and leaves every resolver as it was.
C12_SinkOncePerTouched ==
    [][ call'.op = "process" =>
          /\ \A b \in 1..Len(router.bindings) :
                 Cardinality({i \in 1..Len(sunk') : sunk'[i].binding = b})
                     = IF Watched(router.bindings[b].ccs, call'.items) # <<>>
                       THEN 1 ELSE 0
          /\ (\A i \in 1..Len(call'.items) :
                  call'.items[i].control \notin mapped_ccs(router)) =>
                 /\ sunk' = <<>>
                 /\ router' = router
                 /\ effects' = effects ]_vars

\* a batch of two events on control 7 while binding 1 holds a value from an
\* earlier batch: bindings 2 and 3 are pushed once each, binding 1 is not
C12_Witness ==
    /\ call.op = "process"
    /\ Len(router.bindings) = Len(RouterBindings)
    /\ Len(call.items) = 2
    /\ call.items[1].control = 7 /\ call.items[2].control = 7
    /\ resolve(router.bindings[1].resolver) # None
    /\ SunkOf(1) = {}
    /\ Cardinality(SunkOf(2)) = 1 /\ Cardinality(SunkOf(3)) = 1

\* the values pushed for binding b, in order, among the set_param calls q
RECURSIVE PushedTo(_, _)
PushedTo(q, b) ==
    IF q = <<>> THEN <<>>
    ELSE (IF Head(q).binding = b THEN <<Head(q).value>> ELSE <<>>)
         \o PushedTo(Tail(q), b)

\* C13: processing the same batch a second time right after the first pushes,
\* for every binding with the MostRecentOfAny or the AverageOfLastPerChannel
\* strategy, the same value as the first call did and leaves its resolver in
\* the state the first call left it in.
C13_ReplayIdempotent ==
    [][ call'.op = "replay" =>
          \A b \in 1..Len(router.bindings) :
              router.bindings[b].resolver.strategy
                  \in {MOST_RECENT_OF_ANY, AVERAGE_OF_LAST_PER_CHANNEL} =>
                  /\ router'.bindings[b].resolver = router.bindings[b].resolver
                  /\ PushedTo(sunk', b) = PushedTo(sunk, b) ]_vars

\* the replayed batch holds two events whose timestamps go backwards, with
\* different values, fed to resolvers that already held an earlier event
C13_Witness ==
    /\ call.op = "replay"
    /\ Len(call.items) = 2
    /\ call.items[1].t > call.items[2].t
    /\ call.items[1].value # call.items[2].value
    /\ call.items[1].channel = call.items[2].channel
    /\ Len(fed[1]) = 5
    /\ Len(sunk) = 2

\* C14: when the delivery to one binding's sink fails (the sink rejects the
\* parameter name, or raises), process() does not raise and every binding
\* matched by the batch still has its value delivered.
C14_SinkFailureIsolated ==
    call.op = "process" =>
        /\ ret = <<>>
        /\ \A b \in 1..Len(router.bindings) : Matched(b) # <<>> => SunkOf(b) # {}

\* C14, the part the code keeps: a sink that rejects the parameter name
\* without raising (Effect.set_param) does not stop the bindings after it
C14_RejectedNameIgnored ==
    (call.op = "process" /\ Matched(1) # <<>>) =>
        /\ SunkOf(1) # {}
        /\ SunkOf(2) # {}
        /\ effects["wave"] = SinkEffects["wave"]

\* a batch with an event on control 5: binding 1's unknown parameter name is
\* ignored, binding 2's sink raises, and binding 3, matched by the same batch,
\* is never delivered
C14_Witness ==
    /\ call.op = "process"
    /\ ret = <<"raised">>
    /\ Matched(3) # <<>>
    /\ SunkOf(1) # {} /\ SunkOf(2) # {}
    /\ SunkOf(3) = {}

----------------------------------------------------------------------------
(* Claims about message decoding *)

\* the notes the latest drain() call queued
NewNotes == SubSeq(midi.note_queue, Len(pre.note_queue) + 1, Len(midi.note_queue))

\* C15: a drain() that reads one message of at least 3 bytes classifies it by
\* the high nibble of the status byte: 0x9n with velocity > 0 queues one
\* note-on, 0x8n or 0x9n with velocity 0 queues one note-off, 0xBn returns one
\* CC and queues no note, every other status yields neither; the channel is
\* (status & 0x0F) + 1 and the data fields are the low 7 bits of the bytes.
C15_Classify ==
    (call.op = "drain" /\ Len(call.items) = 1 /\ Len(call.items[1].data) >= 3) =>
        LET d == call.items[1].data
            nibble == (d[1] % 256) \div 16
            ch == (d[1] % 16) + 1
            b1 == d[2] % 128
            b2 == d[3] % 128
        IN  /\ ch \in 1..16 /\ b1 \in 0..127 /\ b2 \in 0..127
            /\ Len(midi.note_queue) >= Len(pre.note_queue)
            /\ SubSeq(midi.note_queue, 1, Len(pre.note_queue)) = pre.note_queue
            /\ IF nibble = 9 /\ b2 > 0
               THEN /\ ret = <<>>
                    /\ NewNotes = <<[channel |-> ch, note |-> b1, velocity |-> b2,
                                     is_on |-> TRUE, t |-> call.now_t]>>
               ELSE IF nibble = 8 \/ nibble = 9
               THEN /\ ret = <<>>
                    /\ NewNotes = <<[channel |-> ch, note |-> b1, velocity |-> b2,
                                     is_on |-> FALSE, t |-> call.now_t]>>
               ELSE IF nibble = 11
               THEN /\ ret = <<[channel |-> ch, control |-> b1, value |-> b2,
                                t |-> call.now_t]>>
                    /\ NewNotes = <<>>
               ELSE ret = <<>> /\ NewNotes = <<>>

\* a note-on with velocity 0 on channel 16, read while a note is already
\* queued, was queued as a note-off
C15_Witness ==
    /\ call.op = "drain"
    /\ call.items = <<Msg(<<159, 60, 0>>)>>
    /\ Len(pre.note_queue) = 1
    /\ Len(midi.note_queue) = 2
    /\ midi.note_queue[2].channel = 16
    /\ ~midi.note_queue[2].is_on

\* a message drain() cannot decode: no data, or a status below the real-time
\* range with fewer than 3 bytes
IsMalformed(d) == Len(d) = 0 \/ (d[1] % 256 < 248 /\ Len(d) < 3)

\* the batch without its malformed messages
RECURSIVE WellFormed(_)
WellFormed(items) ==
    IF items = <<>> THEN <<>>
    ELSE (IF IsMalformed(Head(items).data) THEN <<>> ELSE <<Head(items)>>)
         \o WellFormed(Tail(items))

\* C16: drain() drops malformed messages.  A poll leaves the tracker and the
\* note queue, and returns the CC events, exactly as the same poll without its
\* malformed messages would (so the messages after a malformed one are still
\* decoded); a poll of malformed messages only changes nothing and returns
\* nothing; and one-byte real-time messages are acted on: the tick count is
\* the number of ticks received since the latest Start.
C16_MalformedDropped ==
    call.op = "drain" =>
        LET good == drain(pre, call.now_t, WellFormed(call.items))
        IN  /\ midi = good.midi
            /\ ret = good.out
            /\ WellFormed(call.items) = <<>> => (midi = pre /\ ret = <<>>)
            /\ midi.clock_tick_count = since_reset

\* a poll that read a two-byte CC and then a complete CC returned the CC,
\* after an earlier poll in which a truncated note-on was followed by a
\* one-byte tick that was counted
C16_Witness ==
    /\ call.op = "drain"
    /\ call.items = <<Msg(MsgShortCC), Msg(MsgCC)>>
    /\ Len(ret) = 1
    /\ pre.note_queue = <<>>
    /\ midi.clock_tick_count = 1
    /\ polled = 4

\* the backend failed during the latest drain() call
PollFailed == call.op = "drain" /\ \E i \in 1..Len(call.items) : call.items[i].kind = "raise"

\* the messages read before the failure, as backend items
ReadItems == [i \in 1..Len(Received(call.items)) |-> Msg(Received(call.items)[i])]

\* the number of complete control-change messages among msgs
RECURSIVE CountCC(_)
CountCC(msgs) ==
    IF msgs = <<>> THEN 0
    ELSE (IF Len(Head(msgs)) >= 3 /\ (Head(msgs)[1] % 256) \div 16 = 11 THEN 1 ELSE 0)
         + CountCC(Tail(msgs))

\* C17 (as stated): a drain() call during which the backend fails delivers
\* no events.
C17_Original == PollFailed => ret.cc_msgs = <<>>

\* C17 (what the code does): a frame whose drain() call the backend fails
\* in goes on normally; drain() has returned the CC events of the messages
\* read before the failure, the tracker is as those messages left it and the
\* notes they queued are returned by the frame's drain_notes().  Nothing is
\* returned and nothing changes when the first poll fails, and the messages
\* after the failure are not read by that call.
C17_FailureSwallowed ==
    PollFailed =>
        LET good == drain(pre, call.now_t, ReadItems)
        IN  /\ midi = drain_notes(good.midi).midi
            /\ ret.cc_msgs = good.out
            /\ ret.note_msgs = good.midi.note_queue
            /\ Len(ret.cc_msgs) = CountCC(Received(call.items))
            /\ Received(call.items) = <<>> =>
                   (ret.cc_msgs = <<>> /\ ret.note_msgs = <<>> /\ midi = pre)

\* the backend failed after a CC was read: the call returned that CC
C17_Witness ==
    /\ call.op = "drain"
    /\ call.items = <<Msg(MsgCC), BackendRaise>>
    /\ Len(ret.cc_msgs) = 1
    /\ ret.cc_msgs[1].control = 5 /\ ret.cc_msgs[1].value = 64

----------------------------------------------------------------------------
(* Claims about the render loop *)

\* C19 (as stated): with one tick per frame, while the tick count goes from
\* 0 to 23 no beat edge fires; the edge fires once, when the count reaches 24.
C19_Original ==
    (~disturbed /\ call.op = "frame") =>
        (beat_edge <=> (since_reset > 0 /\ since_reset % 24 = 0))

\* C19 (amended): with one tick per frame, the beat-edge branch fires on the
\* first frame on which the clock runs (the latch is undefined until then),
\* then not again while the tick count is below 24, once on the frame on
\* which the count reaches 24, not at 25, and so on once every 24 ticks.
\* Whatever the stream, a frame fires it exactly when the clock runs and the
\* beat index differs from the latch, the latch being undefined at the start
\* and after a Start.
C19_BeatEdge ==
    /\ (~disturbed /\ call.op = "frame") =>
           /\ beat_edge <=> (since_reset = 1 \/ since_reset % 24 = 0)
           /\ edge_log = [i \in 1..(1 + since_reset \div 24) |->
                             IF i = 1 THEN 1 ELSE 24 * (i - 1)]
    /\ call.op = "frame" =>
           /\ beat_edge =>
                  /\ midi.clock_running
                  /\ last_beat_index = Some(since_reset \div 24)
                  /\ edge_log # <<>>
                  /\ edge_log[Len(edge_log)] = since_reset
           /\ (~beat_edge /\ midi.clock_running) =>
                  last_beat_index = Some(since_reset \div 24)

\* the frame on which the 24th tick arrived fired the edge: the second entry
\* of the log, after the latch at tick 1
C19_Witness ==
    /\ call.op = "frame"
    /\ ~disturbed
    /\ since_reset = 24
    /\ beat_edge
    /\ edge_log = <<1, 24>>
    /\ last_beat_index = Some(1)

----------------------------------------------------------------------------
(* Claims about the transforms *)

\* C20: a SigmoidTransform with low 0 and high 1 maps 0 to exactly 0 and 1
\* to exactly 1 for every threshold and every steepness above 0 (the
\* endpoints are returned before the logistic is evaluated), and with a
\* steepness of 0 or below the curve is the identity on [0, 1]: the result is
\* the input, clamped to [0, 1], mapped linearly onto [low, high].
C20_SigmoidEndpoints ==
    call.op = "sigmoid" =>
        LET tr == [low |-> call.items[1], high |-> call.items[2],
                   steepness |-> call.items[4]]
            u == call.items[5]
            y == ret[1]
            unit == IF u[1] <= 0 THEN <<0, 1>> ELSE IF u[1] >= u[2] THEN <<1, 1>> ELSE u
        IN  /\ (tr.low = <<0, 1>> /\ tr.high = <<1, 1>> /\ tr.steepness[1] > 0) =>
                   /\ u = <<0, 1>> => y = <<0, 1>>
                   /\ u = <<1, 1>> => y = <<1, 1>>
            /\ tr.steepness[1] <= 0 =>
                   /\ IsExact(y)
                   /\ (tr.low = <<0, 1>> /\ tr.high = <<1, 1>>) => y = unit
                   \* y = low + (high - low) * unit, cross-multiplied
                   /\ y[1] * tr.low[2] * tr.high[2] * unit[2]
                          = y[2] * ( tr.low[1] * tr.high[2] * unit[2]
                                     + (tr.high[1] * tr.low[2] - tr.low[1] * tr.high[2])
                                       * unit[1] )

\* threshold 1 and steepness 10: the logistic of the input 1 would be 1/2,
\* the transform returned exactly 1
C20_Witness ==
    /\ call.op = "sigmoid"
    /\ call.items = << <<0, 1>>, <<1, 1>>, <<1, 1>>, <<10, 1>>, <<1, 1>> >>
    /\ ret = << <<1, 1>> >>

----------------------------------------------------------------------------
(* C21: Continue *)

\* C21: a Continue event leaves the tracker running and leaves the tick count,
\* the interval window, the bpm estimate, the previous-tick timestamp and the
\* pending start pulse (and every other field) as they were.
C21_ContinueOnlyRuns ==
    (call.op = "drain" /\ call.items = <<Msg(MsgContinue)>>) =>
        /\ midi.clock_running
        /\ midi.clock_tick_count = pre.clock_tick_count
        /\ midi.clock_tick_dts = pre.clock_tick_dts
        /\ midi.clock_bpm = pre.clock_bpm
        /\ midi.clock_last_tick_t = pre.clock_last_tick_t
        /\ midi.clock_start_pulse = pre.clock_start_pulse
        /\ midi = [pre EXCEPT !.clock_running = TRUE]

C21_Witness ==
    /\ call.op = "drain" /\ call.items = <<Msg(MsgContinue)>>
    /\ pre.clock_start_pulse
    /\ pre.clock_tick_count >= 5
    /\ Len(pre.clock_tick_dts) >= 4
    /\ pre.clock_bpm # None
    /\ pre.clock_last_tick_t # None

----------------------------------------------------------------------------
(* C22: a Start followed at once by a Stop, with no clock_state() between  *)

\* a Start immediately followed by a Stop is among msgs
StartThenStop(msgs) ==
    \E i \in 1..(Len(msgs) - 1) : msgs[i] = MsgStart /\ msgs[i + 1] = MsgStop

\* C22 (as stated): when clock_state() is not called between a Start and the
\* Stop that immediately follows it, the first clock_state() call after the
\* Stop reports start_pulse = False.
C22_Original ==
    [][ (/\ call.op = "drain"
         /\ StartThenStop(Received(call.items))
         /\ call'.op = "clock_state") => ret'[3] = FALSE ]_vars

\* C22 (amended): Stop leaves the pending start pulse alone, so when
\* clock_state() is not called between a Start and the Stop that immediately
\* follows it, the first clock_state() call after the Stop reports
\* start_pulse = True, whatever messages came before the Start or after the
\* Stop in the same drain().
C22_PulseSurvivesStop ==
    [][ (/\ call.op = "drain"
         /\ StartThenStop(Received(call.items))
         /\ call'.op = "clock_state") => ret'[3] = TRUE ]_vars

\* the only drain() so far received two messages and left a pulse pending on
\* a stopped clock, i.e. Start then Stop; clock_state() has just reported it
C22_Witness ==
    /\ call.op = "clock_state"
    /\ frames = 1 /\ polled = 2
    /\ pre.clock_start_pulse /\ ~pre.clock_running
    /\ ret[3] = TRUE

----------------------------------------------------------------------------
(* C23: the interval window *)

\* C23: the window is a FIFO of the accepted intervals: after n accepted
\* intervals since the last Start or Stop it holds the most recent min(n, 96)
\* of them in arrival order, and the bpm estimate is the one computed from
\* the mean of exactly those intervals (none while there are fewer than 4).
C23_WindowFifo ==
    LET gaps == [i \in 1..(since_reset - 1) |-> WindowGap(i)]
        accepted == SelectSeq(gaps, LAMBDA g : 17 <= g /\ g <= 2048)
        n == Len(accepted)
        k == IF n < 96 THEN n ELSE 96
        recent == [i \in 1..k |-> accepted[n - k + i]]
    IN  /\ midi.clock_tick_dts = recent
        /\ midi.clock_bpm =
               IF k >= 4 THEN Rat(60 * UnitsPerSec * k, SeqSum(recent) * 24) ELSE None

C23_Witness ==
    /\ call.op = "drain" /\ call.items = <<Msg(MsgTick)>>
    /\ since_reset >= 120
    /\ Len(midi.clock_tick_dts) = 96
    /\ midi.clock_tick_dts[1] # WindowGap(1)
    /\ midi.clock_tick_dts[96] = WindowGap(since_reset - 1)
    /\ midi.clock_bpm # None

----------------------------------------------------------------------------
(* C24: the stopped tracker *)

\* C24: whenever the tracker is not running, its tick count is 0, its window
\* is empty, it has no bpm estimate and no previous-tick timestamp; so a Tick
\* received while stopped finds no counters and leaves the count at 1.
C24_StoppedIsClear ==
    /\ ~midi.clock_running =>
           /\ midi.clock_tick_count = 0
           /\ midi.clock_tick_dts = <<>>
           /\ midi.clock_bpm = None
           /\ midi.clock_last_tick_t = None
    /\ (IsTickCall /\ ~pre.clock_running) =>
           /\ pre.clock_tick_count = 0
           /\ pre.clock_tick_dts = <<>>
           /\ midi.clock_running
           /\ midi.clock_tick_count = 1
           /\ midi.clock_tick_dts = <<>>
           /\ midi.clock_bpm = None

\* a Tick received while stopped, after a Stop that followed 5 ticks
C24_Witness ==
    /\ IsTickCall
    /\ ~pre.clock_running
    /\ frames = 6
    /\ since_reset = 1
    /\ midi.clock_running

----------------------------------------------------------------------------
(* C25: several ticks in one drain() call *)

\* C25: the ticks decoded by one drain(now_t) call all carry now_t, so a tick
\* that follows another tick of the same call has interval 0 and is rejected.
\* One drain() call therefore adds at most one interval to the window (the
\* one from the previous call's tick to now_t), while the tick count goes up
\* by the number of ticks in the batch when the batch holds no Start or Stop.
C25_OneIntervalPerDrain ==
    call.op = "drain" =>
        LET msgs == Received(call.items)
            ticks == Len(SelectSeq(msgs, LAMBDA d : d = MsgTick))
            resets == Len(SelectSeq(msgs, LAMBDA d : d = MsgStart \/ d = MsgStop))
        IN  /\ Len(midi.clock_tick_dts) <= Len(pre.clock_tick_dts) + 1
            /\ resets = 0 =>
                   /\ midi.clock_tick_count = pre.clock_tick_count + ticks
                   /\ \/ midi.clock_tick_dts = pre.clock_tick_dts
                      \/ /\ ticks >= 1
                         /\ pre.clock_last_tick_t # None
                         /\ midi.clock_tick_dts =
                                Append(pre.clock_tick_dts,
                                       call.now_t - pre.clock_last_tick_t[1])
            /\ (Len(msgs) >= 2 /\ msgs[Len(msgs)] = MsgTick
                    /\ msgs[Len(msgs) - 1] = MsgTick) =>
                   midi.clock_last_dt = Some(0)

C25_Witness ==
    /\ call.op = "drain"
    /\ call.items = <<Msg(MsgTick), Msg(MsgTick)>>
    /\ pre.clock_tick_dts # <<>>
    /\ Len(midi.clock_tick_dts) = Len(pre.clock_tick_dts) + 1
    /\ midi.clock_tick_count = pre.clock_tick_count + 2
    /\ midi.clock_last_dt = Some(0)

----------------------------------------------------------------------------
(* C26: ticks needed for an estimate *)

\* C26: after a Start or a Stop (and after construction) the bpm estimate is
\* undefined until at least 5 further Ticks have been received: the first
\* gives no interval and 4 accepted intervals are needed.
C26_FiveTicksForBpm ==
    /\ since_reset < 5 => midi.clock_bpm = None
    /\ Len(midi.clock_tick_dts) <= (IF since_reset = 0 THEN 0 ELSE since_reset - 1)

\* the fifth tick after a Start or Stop, with the estimate just defined
C26_Witness ==
    /\ IsTickCall
    /\ frames > since_reset
    /\ since_reset = 5
    /\ pre.clock_bpm = None
    /\ midi.clock_bpm # None

----------------------------------------------------------------------------
(* C27: arrival order against timestamps *)

\* C27: the value a resolver holds for a channel is that of the event fed
\* last on that channel, in arrival order and whatever the timestamps, and
\* that is what AverageOfLastPerChannel averages; the value MostRecentOfAny
\* uses, held by the same resolver, is that of the newest timestamp.  So an
\* older event fed after a newer one overwrites the former and not the latter.
C27_ArrivalOrderPerChannel ==
    \A b \in 1..Len(router.bindings) :
        fed[b] # <<>> =>
            LET h == fed[b]
                r == router.bindings[b].resolver
            IN  /\ DOMAIN r.per_channel = ChannelsOf(h)
                /\ \A ch \in ChannelsOf(h) : r.per_channel[ch] = LastOfChannel(h, ch)
                /\ r.last_value = Some(h[LatestIndex(h)].value)
                /\ (Len(h) = 2 /\ h[1].channel = h[2].channel /\ h[2].t < h[1].t) =>
                       /\ r.per_channel[h[2].channel] = h[2].value
                       /\ r.last_value = Some(h[1].value)

\* value 80 stamped 2.0 s, then value 5 stamped 1.0 s, both on channel 1: the
\* average resolves to 5/127 and the most recent to 80/127
C27_Witness ==
    /\ Len(fed[2]) = 2
    /\ fed[2][1] = MidiCC(1, 5, 80, 16384)
    /\ fed[2][2] = MidiCC(1, 5, 5, 8192)
    /\ router.bindings[2].resolver.per_channel[1] = 5
    /\ router.bindings[2].resolver.last_value = Some(80)
    /\ resolve(router.bindings[2].resolver) = <<5, 127>>
    /\ resolve(router.bindings[1].resolver) = <<80, 127>>

----------------------------------------------------------------------------
(* C28: feeding before pushing, pushing in registration order *)

\* C28: within one process() call every event of the batch has been fed
\* before any sink is invoked, so every value pushed is the one resolved from
\* the resolver as the whole batch left it; and the sinks are invoked in the
\* order the bindings were registered, whatever the order of the events.
C28_FeedThenSinkInOrder ==
    call.op = "process" =>
        /\ \A i, j \in 1..Len(sunk) : i < j => sunk[i].binding < sunk[j].binding
        /\ \A i \in 1..Len(sunk) :
               LET bd == router.bindings[sunk[i].binding]
               IN  /\ bd.resolver =
                          FeedAll(CCResolverInit(bd.resolver.strategy),
                                  fed[sunk[i].binding])
                   /\ sunk[i].value = TransformCall(bd.transform, resolve(bd.resolver))

\* a batch whose first event is on control 7 (bindings 2 and 3) and whose
\* second is on control 5 (bindings 1 and 2), on different channels: binding
\* 1 is pushed first, binding 3 last, and binding 2 gets the average of both
C28_Witness ==
    /\ call.op = "process"
    /\ call.items = <<MidiCC(1, 7, 10, 8192), MidiCC(2, 5, 80, 8192)>>
    /\ nfed = 2
    /\ Len(sunk) = 3
    /\ sunk[1].binding = 1 /\ sunk[2].binding = 2 /\ sunk[3].binding = 3
    /\ sunk[2].value = <<45, 127>>

----------------------------------------------------------------------------
(* C29: leaving the render loop *)

\* C29 (as stated): the loop ends on a keyboard interrupt and on the display
\* being closed, and in both cases the display has been blanked when run()
\* returns; any other exception leaves run() as an exception.
C29_CleanShutdown ==
    /\ (call.op = "KeyboardInterrupt" \/ matrix.closed) =>
           run \notin {"loop", "drained", "synced"}
    /\ run = "returned" => matrix.shown = "black"
    /\ call.op = "Exception" => run \in {"failing", "raised"}
    /\ run = "raised" => call.op = "Exception"

\* what holds: a keyboard interrupt and a closed window end the loop; when
\* run() returns the window is black unless it was closed, and a closed
\* window is never black; run() is left by an exception only after another
\* exception was caught and re-raised, or by a keyboard interrupt that
\* arrived inside a handler.
C29_InterruptBlanks ==
    /\ (call.op = "KeyboardInterrupt" \/ matrix.closed) =>
           run \notin {"loop", "drained", "synced"}
    /\ (run = "returned" /\ ~matrix.closed) => matrix.shown = "black"
    /\ matrix.closed => matrix.shown # "black"
    /\ call.op = "Exception" => run \in {"failing", "raised"}
    /\ run = "raised" => call.op = "Exception"
    /\ run = "interrupted" => call.op = "KeyboardInterrupt"
    /\ call.op = "KeyboardInterrupt" =>
           run \in {"interrupting", "returned", "interrupted"}

\* q pressed on the third frame: run() has returned with the second frame
\* still in the window
C29_Witness ==
    /\ matrix.closed
    /\ run = "returned"
    /\ frames = 3
    /\ matrix.shown = "frame"

----------------------------------------------------------------------------
(* C30: held pitch classes *)

\* C30: every held count is >= 0 at all times; a note-on in 0..127 adds 1 to
\* the count of note mod 12, a note-off takes 1 from it unless it is 0, a
\* note out of range changes nothing, activate() sets every count to 0, and
\* draw() highlights exactly the layers whose count is above 0.
C30_HeldCounts ==
    /\ \A i \in 1..12 : waves[i] >= 0
    /\ call.op = "handle_note" =>
           LET n == call.items[1]
               is_on == call.items[2]
           IN  \A i \in 1..12 :
                   waves[i] =
                       IF n < 0 \/ n > 127 \/ i # (n % 12) + 1 THEN pre_waves[i]
                       ELSE IF is_on THEN pre_waves[i] + 1
                       ELSE IF pre_waves[i] > 0 THEN pre_waves[i] - 1
                       ELSE 0
    /\ call.op = "activate" => \A i \in 1..12 : waves[i] = 0
    /\ call.op = "draw" =>
           /\ waves = pre_waves
           /\ \A i \in 1..12 : ret[i] <=> waves[i] > 0

\* a note-off for pitch class 0 that matches no note-on, while pitch class 7
\* is held twice
C30_Witness ==
    /\ call.op = "handle_note"
    /\ call.items = <<60, FALSE>>
    /\ pre_waves[1] = 0
    /\ waves[1] = 0
    /\ waves[8] = 2

====
